---- MODULE Spec2Model ----
(***************************************************************************)
(* Model of the design canvas of the system-design documentation app:      *)
(*   - CanvasUtils (coordinate transforms, fitToView),                     *)
(*   - parseAgentResponse (the agent response normalizer),                 *)
(*   - ProjectStorage (the localStorage facade),                           *)
(*   - the DesignCanvas component's event handlers (page.tsx).             *)
(* JavaScript numbers are binary floating-point values; they are modelled  *)
(* as floating-point values with a MantissaBits-bit significand and        *)
(* round-to-nearest-even, so that rounding is part of every operation.     *)
(***************************************************************************)
EXTENDS Integers, Sequences, FiniteSets, TLC

(* Width of the significand of the modelled numbers (53 in JavaScript). *)
MantissaBits == 8

(***************************************************************************)
(* Numbers.  A number is <<kind, m, e>>: kind "num" is the value m * 2^e   *)
(* with m odd (or m = 0, e = 0); kind "inf" is +/-Infinity (m = 1 or -1);  *)
(* kind "nan" is NaN.                                                      *)
(***************************************************************************)
RECURSIVE Pow2(_)
Pow2(n) == IF n <= 0 THEN 1 ELSE 2 * Pow2(n - 1)

Abs(x) == IF x < 0 THEN -x ELSE x

Sign(x) == IF x < 0 THEN -1 ELSE IF x > 0 THEN 1 ELSE 0

RECURSIVE BitLen(_)
BitLen(n) == IF n <= 0 THEN 0 ELSE 1 + BitLen(n \div 2)

NaN == <<"nan", 0, 0>>

PosInf == <<"inf", 1, 0>>

NegInf == <<"inf", -1, 0>>

Zero == <<"num", 0, 0>>

IsNum(x) == x[1] = "num"

IsNaN(x) == x[1] = "nan"

IsInf(x) == x[1] = "inf"

InfOf(s) == IF s < 0 THEN NegInf ELSE PosInf

RECURSIVE Norm(_, _)
Norm(m, e) ==
  IF m = 0 THEN Zero
  ELSE IF m % 2 = 0 THEN Norm(m \div 2, e + 1)
  ELSE <<"num", m, e>>

(* a / b rounded to the nearest integer, ties to even (a >= 0, b > 0). *)
RoundHalfEven(a, b) ==
  LET q == a \div b
      r == a % b
  IN IF 2 * r < b THEN q
     ELSE IF 2 * r > b THEN q + 1
     ELSE IF q % 2 = 0 THEN q ELSE q + 1

(* The number nearest to (n / d) * 2^e that has a MantissaBits-bit
   significand: the rounding every arithmetic operation ends with. *)
RECURSIVE RoundQ(_, _, _)
RoundQ(n, d, e) ==
  LET a == Abs(n)
      q == a \div d
      s == BitLen(q) - MantissaBits
  IN IF n = 0 THEN Zero
     ELSE IF s > 0
       THEN Norm(Sign(n) * RoundHalfEven(a, d * Pow2(s)), e + s)
     ELSE IF a % d = 0 THEN Norm(Sign(n) * q, e)
     ELSE RoundQ(2 * n, d, e - 1)

(* An integer literal of the source. *)
FromInt(n) == RoundQ(n, 1, 0)

AddNum(x, y) ==
  LET hi == IF x[3] >= y[3] THEN x ELSE y
      lo == IF x[3] >= y[3] THEN y ELSE x
      shift == hi[3] - lo[3]
  IN IF x[2] = 0 THEN y
     ELSE IF y[2] = 0 THEN x
     ELSE IF shift > 2 * MantissaBits THEN hi
     ELSE RoundQ(hi[2] * Pow2(shift) + lo[2], 1, lo[3])

FNeg(x) == <<x[1], -x[2], x[3]>>

(* x + y *)
FAdd(x, y) ==
  IF IsNaN(x) \/ IsNaN(y) THEN NaN
  ELSE IF IsInf(x) THEN (IF IsInf(y) /\ y[2] # x[2] THEN NaN ELSE x)
  ELSE IF IsInf(y) THEN y
  ELSE AddNum(x, y)

(* x - y *)
FSub(x, y) == FAdd(x, FNeg(y))

(* x * y *)
FMul(x, y) ==
  IF IsNaN(x) \/ IsNaN(y) THEN NaN
  ELSE IF IsInf(x) \/ IsInf(y)
    THEN (IF x[2] = 0 \/ y[2] = 0 THEN NaN ELSE InfOf(Sign(x[2]) * Sign(y[2])))
  ELSE RoundQ(x[2] * y[2], 1, x[3] + y[3])

(* x / y *)
FDiv(x, y) ==
  IF IsNaN(x) \/ IsNaN(y) THEN NaN
  ELSE IF IsInf(x)
    THEN (IF IsInf(y) THEN NaN ELSE InfOf(x[2] * (IF y[2] < 0 THEN -1 ELSE 1)))
  ELSE IF IsInf(y) THEN Zero
  ELSE IF y[2] = 0 THEN (IF x[2] = 0 THEN NaN ELSE InfOf(x[2]))
  ELSE RoundQ(Sign(y[2]) * x[2] * Pow2(2 * MantissaBits + 1), Abs(y[2]),
              x[3] - y[3] - (2 * MantissaBits + 1))

(* The sign of x - y for two finite numbers. *)
CmpNum(x, y) ==
  LET hi == IF x[3] >= y[3] THEN x ELSE y
      lo == IF x[3] >= y[3] THEN y ELSE x
      shift == hi[3] - lo[3]
      flip == IF x[3] >= y[3] THEN 1 ELSE -1
  IN IF x[2] = 0 THEN -Sign(y[2])
     ELSE IF y[2] = 0 THEN Sign(x[2])
     ELSE IF shift > 2 * MantissaBits THEN flip * Sign(hi[2])
     ELSE flip * Sign(hi[2] * Pow2(shift) - lo[2])

(* x < y (false when either is NaN) *)
FLt(x, y) ==
  IF IsNaN(x) \/ IsNaN(y) THEN FALSE
  ELSE IF IsInf(x) THEN x[2] < 0 /\ y # NegInf
  ELSE IF IsInf(y) THEN y[2] > 0
  ELSE CmpNum(x, y) < 0

(* x > y *)
FGt(x, y) == FLt(y, x)

(* x <= y *)
FLe(x, y) == ~IsNaN(x) /\ ~IsNaN(y) /\ ~FLt(y, x)

(* Math.min(x, y) *)
FMin(x, y) == IF IsNaN(x) \/ IsNaN(y) THEN NaN ELSE IF FLt(y, x) THEN y ELSE x

(* Math.max(x, y) *)
FMax(x, y) == IF IsNaN(x) \/ IsNaN(y) THEN NaN ELSE IF FLt(x, y) THEN y ELSE x

(* Number.isFinite *)
IsFinite(x) == IsNum(x)

(* The decimal literals of the source, correctly rounded. *)
Tenth == FDiv(FromInt(1), FromInt(10))

One == FromInt(1)

Two == FromInt(2)

Point(x, y) == [x |-> x, y |-> y]

Origin == Point(Zero, Zero)

(***************************************************************************)
(* CanvasUtils (lib/utils.ts)                                              *)
(***************************************************************************)
(* CanvasUtils.screenToCanvas with the divisor dropped: a mutant. *)
screenToCanvasNoZoom(screenX, screenY, pan, zoom) ==
  Point(FSub(screenX, pan.x), FSub(screenY, pan.y))

screenToCanvas(screenX, screenY, pan, zoom) ==
  Point(FDiv(FSub(screenX, pan.x), zoom), FDiv(FSub(screenY, pan.y), zoom))

canvasToScreen(canvasX, canvasY, pan, zoom) ==
  Point(FAdd(FMul(canvasX, zoom), pan.x), FAdd(FMul(canvasY, zoom), pan.y))

(* Math.min(...xs) and Math.max(...xs) over an array of numbers. *)
RECURSIVE MinOf(_)
MinOf(xs) == IF xs = <<>> THEN PosInf ELSE FMin(Head(xs), MinOf(Tail(xs)))

RECURSIVE MaxOf(_)
MaxOf(xs) == IF xs = <<>> THEN NegInf ELSE FMax(Head(xs), MaxOf(Tail(xs)))

NodeWidth == FromInt(300)

NodeHeight == FromInt(150)

DefaultPadding == FromInt(50)

(* Math.min(zoomX, zoomY) without the cap at 1: a mutant. *)
fitZoomUncapped(zoomX, zoomY) == FMin(zoomX, zoomY)

(* Math.min(zoomX, zoomY, 1) *)
fitZoom(zoomX, zoomY) == FMin(FMin(zoomX, zoomY), One)

(* minX, maxX, minY, maxY, contentWidth and contentHeight of fitToView. *)
contentBox(nodes, padding) ==
  LET xs == [i \in 1..Len(nodes) |-> nodes[i].position.x]
      ys == [i \in 1..Len(nodes) |-> nodes[i].position.y]
      minX == FSub(MinOf(xs), padding)
      maxX == FAdd(FAdd(MaxOf(xs), padding), NodeWidth)
      minY == FSub(MinOf(ys), padding)
      maxY == FAdd(FAdd(MaxOf(ys), padding), NodeHeight)
  IN [minX |-> minX, maxX |-> maxX, minY |-> minY, maxY |-> maxY,
      contentWidth |-> FSub(maxX, minX), contentHeight |-> FSub(maxY, minY)]

(* The body of fitToView after the empty-array guard. *)
fitContent(nodes, containerWidth, containerHeight, padding) ==
  LET minX == contentBox(nodes, padding).minX
      minY == contentBox(nodes, padding).minY
      contentWidth == contentBox(nodes, padding).contentWidth
      contentHeight == contentBox(nodes, padding).contentHeight
      zoomX == FDiv(containerWidth, contentWidth)
      zoomY == FDiv(containerHeight, contentHeight)
      zoom == fitZoom(zoomX, zoomY)
  IN [zoom |-> zoom,
      pan |-> Point(
        FSub(FDiv(FSub(containerWidth, FMul(contentWidth, zoom)), Two),
             FMul(minX, zoom)),
        FSub(FDiv(FSub(containerHeight, FMul(contentHeight, zoom)), Two),
             FMul(minY, zoom)))]

(* fitToView without the empty-array guard: a mutant. *)
fitToViewNoGuard(nodes, containerWidth, containerHeight, padding) ==
  fitContent(nodes, containerWidth, containerHeight, padding)

fitToView(nodes, containerWidth, containerHeight, padding) ==
  IF Len(nodes) = 0 THEN [zoom |-> One, pan |-> Origin]
  ELSE fitContent(nodes, containerWidth, containerHeight, padding)

(***************************************************************************)
(* Identifiers and entities (lib/types.ts)                                 *)
(***************************************************************************)
(* generateId(): `${Date.now()}-${random}`; the k-th identifier generated. *)
generateId(k) == <<"gen", k>>

(* An identifier that came with an agent payload. *)
AgentId(k) == <<"agent", k>>

(* The empty string used as an identifier. *)
EmptyId == <<"", 0>>

(* null, where an identifier may stand. *)
NullId == <<"null", 0>>

SystemNode(id, type, x, y) ==
  [id |-> id, type |-> type, position |-> Point(FromInt(x), FromInt(y))]

NodeConnection(id, source, target, label, protocol) ==
  [id |-> id, source |-> source, target |-> target, type |-> "sync",
   label |-> label, protocol |-> protocol]

NodeIds(nodes) == {nodes[i].id : i \in 1..Len(nodes)}

(***************************************************************************)
(* parseAgentResponse.  The free text of a response is a sequence of       *)
(* tokens: "p" is prose, "fo" the fence opener ```json, "fc" the fence     *)
(* ```, "{" and "}" the braces, "null" the literal null, and a payload     *)
(* token the members of a JSON object (PayloadOf).                         *)
(***************************************************************************)
EmptyObject ==
  [t |-> "obj", hasNodes |-> FALSE, nodes |-> <<>>,
   hasConnections |-> FALSE, connections |-> <<>>]

JsonNull == [EmptyObject EXCEPT !.t = "null"]

DataObject(nodes, connections) ==
  [t |-> "obj", hasNodes |-> TRUE, nodes |-> nodes,
   hasConnections |-> TRUE, connections |-> connections]

AgentNodeA == SystemNode(AgentId(1), "service", 0, 0)

AgentNodeB == SystemNode(AgentId(2), "database", 400, 0)

AgentNodeC == SystemNode(AgentId(3), "queue", 100, 300)

AgentConnAB == NodeConnection(AgentId(9), AgentId(1), AgentId(2), "calls", "HTTP")

AgentConnBC == NodeConnection(AgentId(8), AgentId(2), AgentId(3), "queues", "AMQP")

PayloadTokens == {"N1", "N2", "N0", "M"}

(* The object whose members a payload token spells. *)
PayloadOf(tok) ==
  CASE tok = "N1" -> [EmptyObject EXCEPT !.hasNodes = TRUE, !.nodes = <<AgentNodeC>>]
    [] tok = "N2" -> DataObject(<<AgentNodeA, AgentNodeB>>, <<AgentConnAB>>)
    [] tok = "N0" -> DataObject(<<>>, <<>>)
    [] OTHER -> EmptyObject

(* JSON.parse: the value, or ok = FALSE where it throws a SyntaxError. *)
JsonParse(toks) ==
  IF toks = <<"null">> THEN [ok |-> TRUE, val |-> JsonNull]
  ELSE IF toks = <<"{", "}">> THEN [ok |-> TRUE, val |-> EmptyObject]
  ELSE IF Len(toks) = 3 /\ toks[1] = "{" /\ toks[3] = "}" /\ toks[2] \in PayloadTokens
    THEN [ok |-> TRUE, val |-> PayloadOf(toks[2])]
  ELSE [ok |-> FALSE, val |-> EmptyObject]

Slice(toks, a, b) == [i \in 1..(b - a + 1) |-> toks[a + i - 1]]

FenceTokens == {"fo", "fc"}

(* responseText.match(/```json\s*([\s\S]*?)\s*```/): the first opener that a
   later fence closes; found = FALSE when there is no match. *)
FenceMatch(toks) ==
  LET opens == {i \in 1..Len(toks) : toks[i] = "fo"
                  /\ \E j \in (i + 1)..Len(toks) : toks[j] \in FenceTokens}
  IN IF opens = {} THEN [found |-> FALSE, group |-> <<>>]
     ELSE LET i == CHOOSE a \in opens : \A b \in opens : a <= b
              j == CHOOSE a \in (i + 1)..Len(toks) :
                     /\ toks[a] \in FenceTokens
                     /\ \A b \in (i + 1)..(a - 1) : toks[b] \notin FenceTokens
          IN [found |-> TRUE, group |-> Slice(toks, i + 1, j - 1)]

(* Tokens that hold a '{' and tokens that hold a '}'. *)
HasOpenBrace(tok) == tok = "{" \/ tok \in (PayloadTokens \ {"M"})

HasCloseBrace(tok) == tok = "}" \/ tok \in (PayloadTokens \ {"M"})

(* JSON.parse(responseText.substring(jsonStart, jsonEnd + 1)) in the else
   branch of the try block; tried = FALSE when indexOf('{') or
   lastIndexOf('}') is -1.  A substring that starts or ends inside a payload
   token, or whose end precedes its start, is not the text of an object that
   has nodes: it counts as a failed parse. *)
BraceParse(toks) ==
  LET starts == {i \in 1..Len(toks) : HasOpenBrace(toks[i])}
      ends == {i \in 1..Len(toks) : HasCloseBrace(toks[i])}
  IN IF starts = {} \/ ends = {}
       THEN [tried |-> FALSE, ok |-> FALSE, val |-> EmptyObject]
     ELSE LET jsonStart == CHOOSE i \in starts : \A j \in starts : i <= j
              jsonEnd == CHOOSE i \in ends : \A j \in ends : j <= i
          IN IF toks[jsonStart] = "{" /\ toks[jsonEnd] = "}" /\ jsonStart < jsonEnd
               THEN [tried |-> TRUE] @@ JsonParse(Slice(toks, jsonStart, jsonEnd))
               ELSE [tried |-> TRUE, ok |-> FALSE, val |-> EmptyObject]

(* Path 1 reading a field the response does not have: a mutant. *)
directDataMissed(response) == EmptyObject

(* Path 1: response?.result?.data, when truthy. *)
directData(response) ==
  IF response.data.present THEN response.data.val ELSE EmptyObject

(* The try block (Path 2) entered with the fence search removed: a mutant. *)
textDataNoFence(data, toks) ==
  LET b == BraceParse(toks)
  IN IF b.tried /\ b.ok THEN b.val ELSE data

(* The try block (Path 2): the data after it, unchanged where JSON.parse
   throws (the catch only logs). *)
textData(data, toks) ==
  LET jsonMatch == FenceMatch(toks)
      fenced == JsonParse(jsonMatch.group)
      braced == BraceParse(toks)
  IN IF jsonMatch.found
       THEN (IF fenced.ok THEN fenced.val ELSE data)
       ELSE (IF braced.tried /\ braced.ok THEN braced.val ELSE data)

(* The four nodes of the default architecture; k identifiers were generated
   before the call. *)
defaultNodes(k) ==
  << SystemNode(generateId(k + 1), "api-gateway", 100, 100),
     SystemNode(generateId(k + 2), "service", 500, 100),
     SystemNode(generateId(k + 3), "database", 500, 400),
     SystemNode(generateId(k + 4), "cache", 900, 250) >>

(* data.nodes?.[i]?.id || '' read from the data being replaced. *)
idOrEmpty(data, i) ==
  IF data.hasNodes /\ i <= Len(data.nodes) THEN data.nodes[i].id ELSE EmptyId

(* The connections of the object literal, built while data still names the
   object being replaced. *)
literalConnections(data, k) ==
  << NodeConnection(generateId(k + 5), idOrEmpty(data, 1), idOrEmpty(data, 2),
                    "HTTP/REST", "HTTPS"),
     NodeConnection(generateId(k + 6), idOrEmpty(data, 2), idOrEmpty(data, 3),
                    "Database queries", "PostgreSQL"),
     NodeConnection(generateId(k + 7), idOrEmpty(data, 2), idOrEmpty(data, 4),
                    "Cache access", "Redis") >>

(* The fix-up left out, so that the literal's connections stay: a mutant. *)
fixedConnectionsStale(nodes, k) == literalConnections(EmptyObject, k)

(* "Fix connection IDs to reference the actual nodes". *)
fixedConnections(nodes, k) ==
  LET nodeIds == [i \in 1..Len(nodes) |-> nodes[i].id]
  IN << NodeConnection(generateId(k + 8), nodeIds[1], nodeIds[2],
                       "HTTP/REST", "HTTPS"),
        NodeConnection(generateId(k + 9), nodeIds[2], nodeIds[3],
                       "Database queries", "PostgreSQL"),
        NodeConnection(generateId(k + 10), nodeIds[2], nodeIds[4],
                       "Cache access", "Redis") >>

Thrown == [threw |-> TRUE, nodes |-> <<>>, connections |-> <<>>, ids |-> 0]

Returned(nodes, connections, ids) ==
  [threw |-> FALSE, nodes |-> nodes, connections |-> connections, ids |-> ids]

(* return { nodes: data.nodes || [], connections: data.connections || [] } *)
parseReturn(data) ==
  Returned(IF data.hasNodes THEN data.nodes ELSE <<>>,
           IF data.hasConnections THEN data.connections ELSE <<>>, 0)

(* parseAgentResponse of the module that mines the response text; k
   identifiers were generated before the call. *)
parseAgentResponse(response, k) ==
  LET data1 == directData(response)
      data2 == IF ~data1.hasNodes /\ response.text.present /\ response.text.toks # <<>>
                 THEN textData(data1, response.text.toks)
                 ELSE data1
  IN IF data2.t = "null" THEN Thrown
     ELSE IF ~data2.hasNodes \/ Len(data2.nodes) = 0
       THEN LET data3 == DataObject(defaultNodes(k), literalConnections(data2, k))
                data4 == [data3 EXCEPT !.connections = fixedConnections(data3.nodes, k)]
            IN [parseReturn(data4) EXCEPT !.ids = 10]
     ELSE parseReturn(data2)

(* parseAgentResponse of lib/utils.ts, which reads result.data alone. *)
parseAgentResponseData(response) ==
  parseReturn(directData(response))

(***************************************************************************)
(* ProjectStorage (lib/utils.ts).  The item of localStorage under           *)
(* STORAGE_KEY is absent, or the JSON text of an array of projects; the    *)
(* model keeps the array that text spells.  Times are clock readings.      *)
(***************************************************************************)
(* A number as JSON.stringify writes it and JSON.parse reads it back:
   NaN and the infinities are written as null. *)
JsonNull3 == <<"null", 0, 0>>

JsonNumber(x) == IF IsNum(x) THEN x ELSE JsonNull3

JsonNode(n) ==
  [n EXCEPT !.position = Point(JsonNumber(n.position.x), JsonNumber(n.position.y))]

(* JSON.parse(JSON.stringify(project)) *)
JsonProject(p) ==
  [p EXCEPT !.nodes = [i \in 1..Len(p.nodes) |-> JsonNode(p.nodes[i])],
            !.versions = [i \in 1..Len(p.versions) |->
               [p.versions[i] EXCEPT !.nodes =
                  [j \in 1..Len(p.versions[i].nodes) |-> JsonNode(p.versions[i].nodes[j])]]]]

NoItem == [kind |-> "absent", projects |-> <<>>]

(* localStorage.setItem(STORAGE_KEY, JSON.stringify(projects)) *)
setItem(projects) ==
  [kind |-> "json", projects |-> [i \in 1..Len(projects) |-> JsonProject(projects[i])]]

(* getAll: data ? JSON.parse(data) : [] *)
getAll(item) == IF item.kind = "json" THEN item.projects ELSE <<>>

(* projects.findIndex(p => p.id === id): 0 stands for -1. *)
findIndex(projects, id) ==
  LET at == {i \in 1..Len(projects) : projects[i].id = id}
  IN IF at = {} THEN 0 ELSE CHOOSE i \in at : \A j \in at : i <= j

NoProject ==
  [id |-> NullId, name |-> "", requirements |-> "", audience |-> "technical",
   nodes |-> <<>>, connections |-> <<>>, status |-> "draft",
   created_at |-> 0, updated_at |-> 0, versions |-> <<>>]

(* getById: projects.find(p => p.id === id) || null *)
getById(item, id) ==
  LET projects == getAll(item)
      index == findIndex(projects, id)
  IN IF index = 0 THEN [found |-> FALSE, project |-> NoProject]
     ELSE [found |-> TRUE, project |-> projects[index]]

(* save that always pushes, never replacing the stored record: a mutant. *)
saveAppending(item, project, time) ==
  setItem(Append(getAll(item), project))

(* save that replaces the stored record without a new updated_at: a
   mutant. *)
saveKeepingStamp(item, project, time) ==
  LET projects == getAll(item)
      index == findIndex(projects, project.id)
  IN IF index >= 1
       THEN setItem([projects EXCEPT ![index] = project])
       ELSE setItem(Append(projects, project))

(* save(project) at clock reading time: the item afterwards. *)
save(item, project, time) ==
  LET projects == getAll(item)
      index == findIndex(projects, project.id)
  IN IF index >= 1
       THEN setItem([projects EXCEPT ![index] = [project EXCEPT !.updated_at = time]])
       ELSE setItem(Append(projects, project))

(* delete by projects.splice(projects.findIndex(...), 1), which takes the
   last project away when the id is not found: a mutant. *)
deleteSplice(item, id) ==
  LET projects == getAll(item)
      index == findIndex(projects, id)
      at == IF index = 0 THEN Len(projects) ELSE index
  IN setItem([i \in 1..(IF projects = <<>> THEN 0 ELSE Len(projects) - 1) |->
                IF i < at THEN projects[i] ELSE projects[i + 1]])

(* delete(id) *)
delete(item, id) ==
  LET Other(p) == p.id # id
  IN setItem(SelectSeq(getAll(item), Other))

(* The project create(name) builds, with the k + 1st identifier. *)
newProject(name, k, time) ==
  [id |-> generateId(k + 1), name |-> name, requirements |-> "",
   audience |-> "technical", nodes |-> <<>>, connections |-> <<>>,
   status |-> "draft", created_at |-> time, updated_at |-> time,
   versions |-> <<>>]

(* create(name): the item afterwards. *)
create(item, name, k, time) == save(item, newProject(name, k, time), time)

(***************************************************************************)
(* State                                                                   *)
(***************************************************************************)
VARIABLES
  pc,                 \* "editor", or the stage of a call of a library function
  call,               \* the library call under way and its arguments
  ret,                \* what the call returned
  localStorage,       \* the item stored under ProjectStorage.STORAGE_KEY
  now,                \* the clock (new Date())
  ids,                \* how many identifiers generateId has produced
  project,            \* useState: the project being edited
  canvasState,        \* useState: zoom, pan, selectedNodeId
  rightPanelOpen,     \* useState
  connectionMode,     \* useState
  connectionSource,   \* useState: a node id, or null
  selectedConnection, \* useState: a connection, or null
  connectionEditOpen, \* useState
  last,               \* the handler that ran last, and the branch it took
  draggedNode,        \* useState: the node picked up, or null
  dragOffset,         \* useState
  isPanning,          \* useState
  panStart,           \* useState
  pointer,            \* where the pointer went down last and where it is;
                      \* the button of the last press on the background
  requirements,       \* useState: the text of the requirements box
  isGenerating,       \* useState
  generationError,    \* useState: a message, or null
  agentCall           \* the callAIAgent promise handleGenerateDesign awaits

callVars == <<pc, call, ret>>

storeVars == <<localStorage, now, ids>>

dragVars == <<draggedNode, dragOffset, isPanning, panStart, pointer>>

genVars == <<requirements, isGenerating, generationError, agentCall>>

editorVars ==
  <<project, canvasState, rightPanelOpen, connectionMode, connectionSource,
    selectedConnection, connectionEditOpen, last, dragVars, genVars>>

vars == <<callVars, storeVars, editorVars>>

NoCall == [fn |-> "none"]

NoReturn == [fn |-> "none"]

NoHandler == [op |-> "none", id |-> NullId, branch |-> ""]

NoConnection == [present |-> FALSE, id |-> NullId]

NoNode == [present |-> FALSE, node |-> SystemNode(NullId, "", 0, 0)]

NoError == "null"

(* No call of the agent is awaited. *)
NoAgentCall == [pending |-> FALSE, project |-> NoProject, later |-> <<>>]

(* The initial values of the component's useState hooks. *)
InitialCanvasState == [zoom |-> One, pan |-> Origin, selectedNodeId |-> NullId]

HooksInitial ==
  /\ canvasState = InitialCanvasState
  /\ rightPanelOpen = FALSE
  /\ connectionMode = FALSE
  /\ connectionSource = NullId
  /\ selectedConnection = NoConnection
  /\ connectionEditOpen = FALSE
  /\ last = NoHandler
  /\ draggedNode = NoNode
  /\ dragOffset = Origin
  /\ isPanning = FALSE
  /\ panStart = Origin
  /\ pointer = [down |-> Origin, at |-> Origin, button |-> 0]
  /\ requirements = ""
  /\ isGenerating = FALSE
  /\ generationError = NoError
  /\ agentCall = NoAgentCall

(* No page is mounted and nothing is stored: the setting of library calls. *)
Unmounted ==
  /\ localStorage = NoItem /\ now = 0 /\ ids = 0
  /\ project = NoProject
  /\ HooksInitial

(***************************************************************************)
(* Calls of CanvasUtils.canvasToScreen followed by screenToCanvas          *)
(***************************************************************************)
(* Zoom levels: the steps of the zoom buttons between the clamps and the
   halves fit-to-view can give. *)
Zooms ==
  {FDiv(FromInt(n), FromInt(10)) : n \in {1, 5, 7, 10, 11, 15, 20}}
    \cup {FDiv(One, FromInt(4))}

Coordinates == {FromInt(n) : n \in {-200, 0, 3, 100, 250, 900}}

Pans == {Point(FromInt(a), FromInt(b)) : a \in {0, 10, -35}, b \in {0, 64}}

InitTransform ==
  /\ pc = "call"
  /\ call \in [fn : {"canvasToScreen"}, x : Coordinates, y : Coordinates,
               pan : Pans, zoom : Zooms]
  /\ ret = [screen |-> Origin, canvas |-> Origin]
  /\ Unmounted

ToScreen ==
  /\ pc = "call"
  /\ ret' = [ret EXCEPT !.screen = canvasToScreen(call.x, call.y, call.pan, call.zoom)]
  /\ pc' = "screen"
  /\ UNCHANGED <<call, storeVars, editorVars>>

ToCanvas ==
  /\ pc = "screen"
  /\ ret' = [ret EXCEPT !.canvas =
               screenToCanvas(ret.screen.x, ret.screen.y, call.pan, call.zoom)]
  /\ pc' = "done"
  /\ UNCHANGED <<call, storeVars, editorVars>>

NextTransform == ToScreen \/ ToCanvas

SpecTransform == InitTransform /\ [][NextTransform]_vars

(***************************************************************************)
(* Calls of CanvasUtils.fitToView                                          *)
(***************************************************************************)
MaxFitNodes == 2

FitPositions ==
  {Point(FromInt(0), FromInt(0)), Point(FromInt(100), FromInt(100)),
   Point(FromInt(900), FromInt(250)), Point(FromInt(-200), FromInt(50))}

FitNodes ==
  UNION {[1..n -> {[id |-> AgentId(1), type |-> "service", position |-> q] :
                     q \in FitPositions}] : n \in 0..MaxFitNodes}

ContainerSizes == {FromInt(n) : n \in {0, 300, 1600}}

Paddings == {FromInt(n) : n \in {50, 0, -150}}

InitFit ==
  /\ pc = "call"
  /\ call \in [fn : {"fitToView"}, nodes : FitNodes, containerWidth : ContainerSizes,
               containerHeight : ContainerSizes, padding : Paddings]
  /\ ret = [zoom |-> Zero, pan |-> Origin]
  /\ Unmounted

FitToView ==
  /\ pc = "call"
  /\ ret' = fitToView(call.nodes, call.containerWidth, call.containerHeight,
                      call.padding)
  /\ pc' = "done"
  /\ UNCHANGED <<call, storeVars, editorVars>>

NextFit == FitToView

SpecFit == InitFit /\ [][NextFit]_vars

(***************************************************************************)
(* Calls of parseAgentResponse                                             *)
(***************************************************************************)
MaxSegments == 2

(* Pieces an agent's reply is made of. *)
Segments ==
  { <<"p">>,
    <<"fo", "{", "N2", "}", "fc">>,
    <<"fo", "{", "N1", "}", "fc">>,
    <<"fo", "{", "N0", "}", "fc">>,
    <<"fo", "{", "N2", "fc">>,
    <<"fo", "null", "fc">>,
    <<"fo", "p", "fc">>,
    <<"fo", "{", "N2", "}">>,
    <<"{", "N2", "}">>,
    <<"{", "N0", "}">>,
    <<"{", "M", "}">>,
    <<"{">>,
    <<"}">> }

RECURSIVE Texts(_)
Texts(n) ==
  IF n = 0 THEN {<<>>}
  ELSE Texts(n - 1) \cup {t \o g : t \in Texts(n - 1), g \in Segments}

DataValues ==
  { EmptyObject,
    DataObject(<<>>, <<>>),
    DataObject(<<AgentNodeA, AgentNodeB>>, <<AgentConnAB>>),
    [EmptyObject EXCEPT !.hasNodes = TRUE, !.nodes = <<AgentNodeB>>] }

Responses ==
  [data : {[present |-> FALSE, val |-> EmptyObject]}
            \cup [present : {TRUE}, val : DataValues],
   text : {[present |-> FALSE, toks |-> <<>>]}
            \cup [present : {TRUE}, toks : Texts(MaxSegments)]]

InitParse ==
  /\ pc = "call"
  /\ call \in [fn : {"parseAgentResponse"}, response : Responses, k : {0, 3}]
  /\ ret = Returned(<<>>, <<>>, 0)
  /\ Unmounted

(* The module that mines the response text. *)
ParseText ==
  /\ pc = "call"
  /\ ret' = parseAgentResponse(call.response, call.k)
  /\ pc' = "text"
  /\ UNCHANGED <<call, storeVars, editorVars>>

(* lib/utils.ts *)
ParseData ==
  /\ pc = "call"
  /\ ret' = parseAgentResponseData(call.response)
  /\ pc' = "data"
  /\ UNCHANGED <<call, storeVars, editorVars>>

NextParse == ParseText \/ ParseData

SpecParse == InitParse /\ [][NextParse]_vars

(***************************************************************************)
(* Calls of ProjectStorage: save, getById, delete, create                  *)
(***************************************************************************)
MaxClock == 1

MaxIds == 2

DiagramA == [nodes |-> <<>>, connections |-> <<>>]

DiagramB ==
  [nodes |-> <<AgentNodeA, AgentNodeB>>, connections |-> <<AgentConnAB>>]

(* The node of the drag scenario. *)
DiagramD ==
  [nodes |-> <<SystemNode(AgentId(1), "service", 100, 100)>>, connections |-> <<>>]

(* The drag scenario with a second node and a connection between the two. *)
DiagramE ==
  [nodes |-> <<SystemNode(AgentId(1), "service", 100, 100),
               SystemNode(AgentId(2), "database", 400, 100)>>,
   connections |-> <<AgentConnAB>>]

PositionOf(nodes, id) ==
  LET i == CHOOSE j \in 1..Len(nodes) : nodes[j].id = id
  IN nodes[i].position

(* Where a node of the drag scenarios is when the page is mounted. *)
Home(id) ==
  IF id \in NodeIds(DiagramE.nodes) THEN PositionOf(DiagramE.nodes, id)
  ELSE DiagramD.nodes[1].position

DiagramC ==
  [nodes |-> <<AgentNodeA, AgentNodeB, AgentNodeC>>,
   connections |-> <<AgentConnAB, AgentConnBC>>]

(* Projects a caller may hand to save: a project of one of the identifiers
   generated so far, as an editor may have changed it. *)
Saveable ==
  {[newProject("Shop", i - 1, 0) EXCEPT
      !.nodes = d.nodes, !.connections = d.connections,
      !.status = IF d.nodes = <<>> THEN "draft" ELSE "completed"] :
     i \in 1..ids, d \in {DiagramA, DiagramB}}

InitStorage ==
  /\ pc = "idle"
  /\ call = [project |-> NoProject, existed |-> FALSE]
  /\ ret = [found |-> FALSE, project |-> NoProject]
  /\ Unmounted

Tick ==
  /\ now < MaxClock
  /\ now' = now + 1
  /\ UNCHANGED <<callVars, localStorage, ids, editorVars>>

StorageCreate ==
  /\ pc = "idle" /\ ids < MaxIds
  /\ localStorage' = create(localStorage, "Untitled Project", ids, now)
  /\ ids' = ids + 1
  /\ UNCHANGED <<callVars, now, editorVars>>

StorageSave ==
  /\ pc = "idle"
  /\ \E p \in Saveable :
       /\ call' = [project |-> p,
                   existed |-> findIndex(getAll(localStorage), p.id) >= 1]
       /\ localStorage' = save(localStorage, p, now)
  /\ pc' = "saved"
  /\ UNCHANGED <<ret, now, ids, editorVars>>

StorageGetById ==
  /\ pc = "saved"
  /\ ret' = getById(localStorage, call.project.id)
  /\ pc' = "got"
  /\ UNCHANGED <<call, storeVars, editorVars>>

StorageReturn ==
  /\ pc \in {"got", "deleted", "deleted again"}
  /\ pc' = "idle"
  /\ call' = [project |-> NoProject, existed |-> FALSE]
  /\ ret' = [found |-> FALSE, project |-> NoProject]
  /\ UNCHANGED <<storeVars, editorVars>>

(* delete(id), of an id that is stored or not. *)
StorageDelete ==
  /\ pc = "idle"
  /\ \E i \in 1..MaxIds :
       /\ call' = [project |-> [NoProject EXCEPT !.id = generateId(i)],
                   existed |-> findIndex(getAll(localStorage), generateId(i)) >= 1]
       /\ localStorage' = delete(localStorage, generateId(i))
  /\ pc' = "deleted"
  /\ UNCHANGED <<ret, now, ids, editorVars>>

(* delete of the id just deleted. *)
StorageDeleteAgain ==
  /\ pc = "deleted"
  /\ localStorage' = delete(localStorage, call.project.id)
  /\ pc' = "deleted again"
  /\ UNCHANGED <<call, ret, now, ids, editorVars>>

NextStorage ==
  \/ Tick
  \/ StorageCreate
  \/ StorageSave
  \/ StorageGetById
  \/ StorageReturn
  \/ StorageDelete
  \/ StorageDeleteAgain

SpecStorage == InitStorage /\ [][NextStorage]_vars

(***************************************************************************)
(* The project page: the handlers of the component, one action each        *)
(***************************************************************************)
MaxNodes == 3

MaxConnections == 2

MaxGenerated == 3

Templates == {"database"}

(* Where a template is released, relative to the canvas element. *)
DropPoints == {Point(FromInt(400), FromInt(200))}

(* !id for a string or null. *)
Falsy(id) == id \in {NullId, EmptyId}

createNodeFromTemplate(template, position, k) ==
  [id |-> generateId(k + 1), type |-> template, position |-> position]

(* setProject(updatedProject); ProjectStorage.save(updatedProject) *)
setAndSave(updatedProject) ==
  /\ project' = updatedProject
  /\ localStorage' = save(localStorage, updatedProject, now)

(* The page of a stored project, one of diagrams, once the load effect has
   run. *)
Mounted(diagrams) ==
  /\ pc = "editor" /\ call = NoCall /\ ret = NoReturn
  /\ now = 0 /\ ids = 1
  /\ \E d \in diagrams :
       localStorage = save(create(NoItem, "Untitled Project", 0, 0),
                           [newProject("Untitled Project", 0, 0) EXCEPT
                              !.nodes = d.nodes, !.connections = d.connections],
                           0)
  /\ project = getById(localStorage, generateId(1)).project
  /\ HooksInitial

Init == Mounted({DiagramA, DiagramC})

handleTemplateDrop ==
  /\ pc = "editor"
  /\ Len(project.nodes) < MaxNodes /\ ids < MaxGenerated
  /\ \E template \in Templates, at \in DropPoints :
       LET position == screenToCanvas(at.x, at.y, canvasState.pan, canvasState.zoom)
           newNode == createNodeFromTemplate(template, position, ids)
       IN /\ setAndSave([project EXCEPT !.nodes = Append(project.nodes, newNode)])
          /\ last' = [op |-> "handleTemplateDrop", id |-> newNode.id, branch |-> ""]
  /\ ids' = ids + 1
  /\ UNCHANGED <<callVars, now, canvasState, rightPanelOpen, connectionMode,
                 connectionSource, selectedConnection, connectionEditOpen>>
  /\ UNCHANGED <<dragVars, genVars>>

(* The branch handleNodeClick takes: a connection clicked twice on one node
   with the check against the pending source left out is a mutant. *)
clickBranchNoSelfCheck(mode, source, nodeId) ==
  IF mode THEN (IF Falsy(source) THEN "source" ELSE "connect") ELSE "select"

(* handleNodeClick with if (connectionMode) left out, every click taken as
   one of connect mode: a mutant. *)
clickBranchConnecting(mode, source, nodeId) ==
  IF Falsy(source) THEN "source"
  ELSE IF source # nodeId THEN "connect" ELSE "self"

clickBranch(mode, source, nodeId) ==
  IF mode
    THEN IF Falsy(source) THEN "source"
         ELSE IF source # nodeId THEN "connect" ELSE "self"
    ELSE "select"

(* The connection drawn from the clicked node back to the source: a mutant. *)
newConnectionReversed(k, source, nodeId) ==
  NodeConnection(generateId(k + 1), nodeId, source, "Connection", "HTTP")

(* newConnection of handleNodeClick, after k generated identifiers. *)
newConnection(k, source, nodeId) ==
  NodeConnection(generateId(k + 1), source, nodeId, "Connection", "HTTP")

handleNodeClick ==
  /\ pc = "editor"
  /\ \E nodeId \in NodeIds(project.nodes) :
       LET branch == clickBranch(connectionMode, connectionSource, nodeId)
       IN /\ last' = [op |-> "handleNodeClick", id |-> nodeId, branch |-> branch]
          /\ CASE branch = "source" ->
                    /\ connectionSource' = nodeId
                    /\ UNCHANGED <<project, storeVars, connectionMode,
                                   canvasState, rightPanelOpen>>
               [] branch = "connect" ->
                    /\ Len(project.connections) < MaxConnections
                    /\ ids < MaxGenerated
                    /\ setAndSave([project EXCEPT !.connections =
                                     Append(project.connections,
                                            newConnection(ids, connectionSource, nodeId))])
                    /\ ids' = ids + 1
                    /\ connectionSource' = NullId
                    /\ connectionMode' = FALSE
                    /\ UNCHANGED <<now, canvasState, rightPanelOpen>>
               [] branch = "self" ->
                    UNCHANGED <<project, storeVars, connectionMode,
                                connectionSource, canvasState, rightPanelOpen>>
               [] branch = "select" ->
                    /\ canvasState' = [canvasState EXCEPT !.selectedNodeId = nodeId]
                    /\ rightPanelOpen' = TRUE
                    /\ UNCHANGED <<project, storeVars, connectionMode, connectionSource>>
  /\ UNCHANGED <<callVars, selectedConnection, connectionEditOpen>>
  /\ UNCHANGED <<dragVars, genVars>>

(* The connect button without its setConnectionSource(null): a mutant. *)
toggleConnectionModeOnly ==
  /\ pc = "editor"
  /\ connectionMode' = ~connectionMode
  /\ last' = [op |-> "toggleConnectionMode", id |-> NullId, branch |-> ""]
  /\ UNCHANGED <<callVars, storeVars, project, canvasState, rightPanelOpen,
                 connectionSource, selectedConnection, connectionEditOpen>>
  /\ UNCHANGED <<dragVars, genVars>>

(* The "Connect nodes" button. *)
toggleConnectionMode ==
  /\ pc = "editor"
  /\ connectionMode' = ~connectionMode
  /\ connectionSource' = NullId
  /\ last' = [op |-> "toggleConnectionMode", id |-> NullId, branch |-> ""]
  /\ UNCHANGED <<callVars, storeVars, project, canvasState, rightPanelOpen,
                 selectedConnection, connectionEditOpen>>
  /\ UNCHANGED <<dragVars, genVars>>

(* The close button of the right panel. *)
closeRightPanel ==
  /\ pc = "editor"
  /\ rightPanelOpen /\ canvasState.selectedNodeId \in NodeIds(project.nodes)
  /\ rightPanelOpen' = FALSE
  /\ last' = [op |-> "closeRightPanel", id |-> NullId, branch |-> ""]
  /\ UNCHANGED <<callVars, storeVars, project, canvasState, connectionMode,
                 connectionSource, selectedConnection, connectionEditOpen>>
  /\ UNCHANGED <<dragVars, genVars>>

(* The filters of deleteSelectedNode with the test of a connection's target
   left out: a mutant. *)
withoutNodeBySource(p, nodeId) ==
  LET OtherNode(n) == n.id # nodeId
      FromOther(c) == c.source # nodeId
  IN [p EXCEPT !.nodes = SelectSeq(p.nodes, OtherNode),
               !.connections = SelectSeq(p.connections, FromOther)]

(* updatedProject of deleteSelectedNode. *)
withoutNode(p, nodeId) ==
  LET OtherNode(n) == n.id # nodeId
      NotTouching(c) == c.source # nodeId /\ c.target # nodeId
  IN [p EXCEPT !.nodes = SelectSeq(p.nodes, OtherNode),
               !.connections = SelectSeq(p.connections, NotTouching)]

(* The "Delete" button of the right panel, which the page renders while
   rightPanelOpen && selectedNode. *)
deleteSelectedNode ==
  /\ pc = "editor"
  /\ rightPanelOpen /\ canvasState.selectedNodeId \in NodeIds(project.nodes)
  /\ ~Falsy(canvasState.selectedNodeId)
  /\ setAndSave(withoutNode(project, canvasState.selectedNodeId))
  /\ rightPanelOpen' = FALSE
  /\ canvasState' = [canvasState EXCEPT !.selectedNodeId = NullId]
  /\ last' = [op |-> "deleteSelectedNode", id |-> canvasState.selectedNodeId,
              branch |-> ""]
  /\ UNCHANGED <<callVars, now, ids, connectionMode, connectionSource,
                 selectedConnection, connectionEditOpen>>
  /\ UNCHANGED <<dragVars, genVars>>

handleConnectionClick ==
  /\ pc = "editor"
  /\ \E i \in 1..Len(project.connections) :
       /\ selectedConnection' = [present |-> TRUE, id |-> project.connections[i].id]
       /\ last' = [op |-> "handleConnectionClick",
                   id |-> project.connections[i].id, branch |-> ""]
  /\ connectionEditOpen' = TRUE
  /\ UNCHANGED <<callVars, storeVars, project, canvasState, rightPanelOpen,
                 connectionMode, connectionSource>>
  /\ UNCHANGED <<dragVars, genVars>>

deleteConnection ==
  /\ pc = "editor"
  /\ selectedConnection.present
  /\ LET Other(c) == c.id # selectedConnection.id
     IN setAndSave([project EXCEPT !.connections = SelectSeq(project.connections, Other)])
  /\ connectionEditOpen' = FALSE
  /\ selectedConnection' = NoConnection
  /\ last' = [op |-> "deleteConnection", id |-> selectedConnection.id, branch |-> ""]
  /\ UNCHANGED <<callVars, now, ids, canvasState, rightPanelOpen, connectionMode,
                 connectionSource>>
  /\ UNCHANGED <<dragVars, genVars>>

(* The handlers the page binds to its elements. *)
Next ==
  \/ Tick
  \/ handleTemplateDrop
  \/ handleNodeClick
  \/ toggleConnectionMode
  \/ closeRightPanel
  \/ deleteSelectedNode

Spec == Init /\ [][Next]_vars

(* Those and the connection handlers the component defines. *)
NextHandlers ==
  \/ Next
  \/ handleConnectionClick
  \/ deleteConnection

SpecHandlers == Init /\ [][NextHandlers]_vars

(***************************************************************************)
(* The canvas of the page: zoom buttons, panning, node dragging            *)
(***************************************************************************)
MaxPanSteps == 1

MaxDrift == 64

(* Math.max(0.1, Math.min(2, z)) with the lower clamp left out: a mutant. *)
clampZoomUpperOnly(z) == FMin(Two, z)

(* Math.max(0.1, Math.min(2, z)) *)
clampZoom(z) == FMax(Tenth, FMin(Two, z))

(* The zoom-in and zoom-out buttons: handleZoom(0.1), handleZoom(-0.1). *)
handleZoom ==
  /\ pc = "editor"
  /\ \E dir \in {"in", "out"} :
       LET delta == IF dir = "in" THEN Tenth ELSE FNeg(Tenth)
       IN /\ canvasState' =
               [canvasState EXCEPT !.zoom = clampZoom(FAdd(canvasState.zoom, delta))]
          /\ last' = [op |-> "handleZoom", id |-> NullId, branch |-> dir]
  /\ UNCHANGED <<callVars, storeVars, project, rightPanelOpen, connectionMode,
                 connectionSource, selectedConnection, connectionEditOpen,
                 dragVars, genVars>>

(* canvasRef.current.getBoundingClientRect(): left and top. *)
CanvasOrigin == Point(FromInt(256), FromInt(64))

(* Where on the background the pointer goes down. *)
BackgroundPoints == {Point(FromInt(300), FromInt(100))}

(* How far from where it went down the pointer is when it moves. *)
Displacements ==
  {Point(FromInt(0), FromInt(0)), Point(FromInt(50), FromInt(0)),
   Point(FromInt(-50), FromInt(0))}

(* The element under the pointer when it goes down on a node (e.target):
   the node's own box, or a child of it lying this far inside the box. *)
ChildOffsets == {Origin, Point(FromInt(16), FromInt(16))}

(* The pointer within that element. *)
Grab == Point(FromInt(4), FromInt(4))

PointSub(a, b) == Point(FSub(a.x, b.x), FSub(a.y, b.y))

PointAdd(a, b) == Point(FAdd(a.x, b.x), FAdd(a.y, b.y))

Within(x, n) == IsNum(x) /\ ~FGt(x, FromInt(n)) /\ ~FLt(x, FromInt(-n))

PointWithin(a, n) == Within(a.x, n) /\ Within(a.y, n)

(* The panStart handleCanvasMouseDown records. *)
panStartAt(client, pan) == PointSub(client, pan)

(* The pan handleCanvasMouseMove sets while panning. *)
panAt(client, start) == PointSub(client, start)

handleCanvasMouseDown ==
  /\ pc = "editor"
  /\ \E client \in BackgroundPoints, button \in {0, 2} :
       /\ pointer' = [down |-> client, at |-> client, button |-> button]
       /\ last' = [op |-> "handleCanvasMouseDown", id |-> NullId,
                   branch |-> IF button = 0 /\ ~draggedNode.present
                                THEN "pan" ELSE ""]
       /\ IF button = 0 /\ ~draggedNode.present
            THEN /\ isPanning' = TRUE
                 /\ panStart' = panStartAt(client, canvasState.pan)
            ELSE UNCHANGED <<isPanning, panStart>>
  /\ UNCHANGED <<callVars, storeVars, project, canvasState, rightPanelOpen,
                 connectionMode, connectionSource, selectedConnection,
                 connectionEditOpen, draggedNode, dragOffset, genVars>>

(* The box of a node on the screen: the canvas element's origin plus
   canvasToScreen of the node's position (left and top of its style). *)
nodeRect(node) ==
  PointAdd(CanvasOrigin,
           canvasToScreen(node.position.x, node.position.y,
                          canvasState.pan, canvasState.zoom))

(* onMouseDown of a node; stopPropagation keeps it from the canvas. *)
handleNodeDragStart ==
  /\ pc = "editor"
  /\ \E i \in 1..Len(project.nodes), child \in ChildOffsets :
       LET node == project.nodes[i]
           rect == PointAdd(nodeRect(node), child)
           client == PointAdd(rect, Grab)
       IN /\ draggedNode' = [present |-> TRUE, node |-> node]
          /\ dragOffset' = PointSub(client, rect)
          /\ pointer' = [down |-> client, at |-> client,
                          button |-> pointer.button]
          /\ last' = [op |-> "handleNodeDragStart", id |-> node.id,
                      branch |-> IF child = Origin THEN "box" ELSE "child"]
  /\ UNCHANGED <<callVars, storeVars, project, canvasState, rightPanelOpen,
                 connectionMode, connectionSource, selectedConnection,
                 connectionEditOpen, isPanning, panStart, genVars>>

(* canvasPos of handleNodeDragMove for a pointer at client. *)
dragPosition(client) ==
  screenToCanvas(FSub(FSub(client.x, CanvasOrigin.x), dragOffset.x),
                 FSub(FSub(client.y, CanvasOrigin.y), dragOffset.y),
                 canvasState.pan, canvasState.zoom)

(* updatedNodes of handleNodeDragMove with the test of the id left out: a
   mutant. *)
nodesDraggedAll(nodes, id, canvasPos) ==
  [i \in 1..Len(nodes) |-> [nodes[i] EXCEPT !.position = canvasPos]]

(* updatedNodes of handleNodeDragMove. *)
nodesDragged(nodes, id, canvasPos) ==
  [i \in 1..Len(nodes) |->
     IF nodes[i].id = id THEN [nodes[i] EXCEPT !.position = canvasPos]
     ELSE nodes[i]]

(* onMouseMove of the canvas, with handleNodeDragMove. *)
handleCanvasMouseMove ==
  /\ pc = "editor"
  /\ \E d \in Displacements :
       LET client == PointAdd(pointer.down, d)
       IN /\ pointer' = [pointer EXCEPT !.at = client]
          /\ IF isPanning
                 THEN /\ PointWithin(panAt(client, panStart), 50 * MaxPanSteps)
                      /\ canvasState' =
                           [canvasState EXCEPT !.pan = panAt(client, panStart)]
                      /\ last' = [op |-> "handleCanvasMouseMove", id |-> NullId,
                                  branch |-> "pan"]
                      /\ UNCHANGED project
               ELSE IF draggedNode.present
                 THEN /\ PointWithin(PointSub(dragPosition(client),
                                               Home(draggedNode.node.id)), MaxDrift)
                      /\ project' =
                           [project EXCEPT !.nodes =
                              nodesDragged(project.nodes, draggedNode.node.id,
                                           dragPosition(client))]
                      /\ last' = [op |-> "handleCanvasMouseMove",
                                  id |-> draggedNode.node.id, branch |-> "drag"]
                      /\ UNCHANGED canvasState
               ELSE /\ last' = [op |-> "handleCanvasMouseMove", id |-> NullId,
                                branch |-> ""]
                    /\ UNCHANGED <<project, canvasState>>
  /\ UNCHANGED <<callVars, storeVars, rightPanelOpen, connectionMode,
                 connectionSource, selectedConnection, connectionEditOpen,
                 draggedNode, dragOffset, isPanning, panStart,
                 genVars>>

(* updatedProject of saveProject built anew, without the project's
   versions: a mutant. *)
savedProjectUnversioned(p, text) ==
  [p EXCEPT !.requirements = text, !.versions = <<>>]

(* updatedProject of saveProject: the project with the text of the
   requirements box (no handler of the model edits projectName or audience,
   which are the project's own). *)
savedProject(p, text) == [p EXCEPT !.requirements = text]

(* onMouseUp and onMouseLeave of the canvas, with handleNodeDragEnd and
   saveProject. *)
handleCanvasMouseUp ==
  /\ pc = "editor"
  /\ isPanning' = FALSE
  /\ IF draggedNode.present
       THEN /\ setAndSave(savedProject(project, requirements))
            /\ draggedNode' = NoNode
       ELSE UNCHANGED <<project, localStorage, draggedNode>>
  /\ last' = [op |-> "handleCanvasMouseUp", id |-> NullId,
              branch |-> IF draggedNode.present THEN "drop" ELSE ""]
  /\ UNCHANGED <<callVars, now, ids, canvasState, rightPanelOpen,
                 connectionMode, connectionSource, selectedConnection,
                 connectionEditOpen, dragOffset, panStart, pointer,
                 genVars>>

(* The zoom buttons and the background gestures. *)
NextZoom ==
  \/ handleZoom
  \/ handleCanvasMouseDown
  \/ handleCanvasMouseMove
  \/ handleCanvasMouseUp

SpecZoom == Init /\ [][NextZoom]_vars

(* The gestures of the pointer on the nodes and on the background. *)
NextDrag ==
  \/ handleNodeDragStart
  \/ handleCanvasMouseDown
  \/ handleCanvasMouseMove
  \/ handleCanvasMouseUp

InitDrag == Mounted({DiagramD})

SpecDrag == InitDrag /\ [][NextDrag]_vars

(* The same gestures on a diagram of two connected nodes. *)
InitDragAmong == Mounted({DiagramE})

(* The nodes are pressed on their own boxes, the background while every
   node is where it was mounted. *)
AllHome == \A i \in 1..Len(project.nodes) :
             project.nodes[i].position = Home(project.nodes[i].id)

NextDragAmong ==
  \/ handleNodeDragStart /\ last'.branch = "box"
  \/ AllHome /\ canvasState.pan = Origin /\ handleCanvasMouseDown
  \/ handleCanvasMouseMove
  \/ handleCanvasMouseUp

SpecDragAmong == InitDragAmong /\ [][NextDragAmong]_vars

(* The gestures on the background and on the node's box, as time passes. *)
NextPan ==
  \/ Tick
  \/ handleNodeDragStart /\ last'.branch = "box"
  \/ handleCanvasMouseDown
  \/ handleCanvasMouseMove
  \/ handleCanvasMouseUp

SpecPan == InitDrag /\ [][NextPan]_vars

(* The connect toggle, the clicks on the nodes and the drag of a node pressed
   on its own box. *)
NextConnectDrag ==
  \/ toggleConnectionMode
  \/ handleNodeClick
  \/ handleNodeDragStart /\ last'.branch = "box"
  \/ handleCanvasMouseMove
  \/ handleCanvasMouseUp

SpecConnectDrag == InitDrag /\ [][NextConnectDrag]_vars

(***************************************************************************)
(* Reads of ProjectStorage over the contents a storage item can have       *)
(***************************************************************************)
(* The outcome of a read: a value, or an exception leaving the call. *)
ReadThrown == [threw |-> TRUE, projects |-> <<>>, found |-> FALSE, project |-> NoProject]

ReadReturned(projects, found, p) ==
  [threw |-> FALSE, projects |-> projects, found |-> found, project |-> p]

(* getAll as a call: without a window it returns [] before touching the
   storage; an absent item or an empty string is falsy and gives []; any
   other text goes to JSON.parse, which throws a SyntaxError on text that
   is not JSON.  Nothing in getAll catches it. *)
getAllCall(item) ==
  IF item.kind = "no window" THEN ReadReturned(<<>>, FALSE, NoProject)
  ELSE IF item.kind \in {"absent", "empty"} THEN ReadReturned(<<>>, FALSE, NoProject)
  ELSE IF item.kind = "json" THEN ReadReturned(item.projects, FALSE, NoProject)
  ELSE ReadThrown

(* getById as a call: this.getAll() and then find(...) || null. *)
getByIdCall(item, id) ==
  LET all == getAllCall(item)
      index == findIndex(all.projects, id)
  IN IF all.threw THEN ReadThrown
     ELSE IF index = 0 THEN ReadReturned(all.projects, FALSE, NoProject)
     ELSE ReadReturned(all.projects, TRUE, all.projects[index])

Storable ==
  {[newProject("Shop", i - 1, 0) EXCEPT
      !.nodes = d.nodes, !.connections = d.connections,
      !.status = IF d.nodes = <<>> THEN "draft" ELSE "completed"] :
     i \in 1..MaxIds, d \in {DiagramA, DiagramB, DiagramD}}

(* What the storage item can hold when the page reads it: nothing, an
   empty string, a list this program wrote, or text that is not JSON. *)
StoredItems ==
  {[kind |-> k, projects |-> <<>>] : k \in {"no window", "absent", "empty", "unparseable"}}
  \cup {setItem(<<>>)}
  \cup {setItem(<<p>>) : p \in Storable}
  \cup {setItem(<<pq[1], pq[2]>>) :
          pq \in {r \in Storable \X Storable : r[1].id # r[2].id}}

InitRead ==
  /\ pc = "idle"
  /\ call = [project |-> NoProject, existed |-> FALSE]
  /\ ret = ReadReturned(<<>>, FALSE, NoProject)
  /\ localStorage \in StoredItems
  /\ now = 0 /\ ids = 0
  /\ project = NoProject
  /\ HooksInitial

ReadGetAll ==
  /\ pc = "idle"
  /\ pc' = "getAll"
  /\ ret' = getAllCall(localStorage)
  /\ UNCHANGED <<call, storeVars, editorVars>>

ReadGetById ==
  /\ pc = "idle"
  /\ pc' = "getById"
  /\ \E i \in 1..MaxIds :
       /\ call' = [project |-> [NoProject EXCEPT !.id = generateId(i)], existed |-> FALSE]
       /\ ret' = getByIdCall(localStorage, generateId(i))
  /\ UNCHANGED <<storeVars, editorVars>>

ReadReturn ==
  /\ pc \in {"getAll", "getById"}
  /\ pc' = "idle"
  /\ call' = [project |-> NoProject, existed |-> FALSE]
  /\ ret' = ReadReturned(<<>>, FALSE, NoProject)
  /\ UNCHANGED <<storeVars, editorVars>>

NextRead == ReadGetAll \/ ReadGetById \/ ReadReturn

SpecRead == InitRead /\ [][NextRead]_vars

(***************************************************************************)
(* Version snapshots of a project                                          *)
(***************************************************************************)
MaxVersions == 2

(* The largest version number among versions, 0 when there is none. *)
previousMax(versions) ==
  IF versions = <<>> THEN 0
  ELSE CHOOSE m \in {versions[i].version : i \in 1..Len(versions)} :
         \A i \in 1..Len(versions) : versions[i].version <= m

(* A ProjectVersion of project p: {id, version, timestamp, nodes,
   connections}. *)
ProjectVersion(p, number, k, time) ==
  [id |-> generateId(k + 1), version |-> number, timestamp |-> time,
   nodes |-> p.nodes, connections |-> p.connections]

(* A snapshot numbered as the previous one: a mutant. *)
snapshotUnnumbered(p, k, time) ==
  [p EXCEPT !.versions =
     Append(p.versions, ProjectVersion(p, previousMax(p.versions), k, time))]

(* Snapshotting: the current nodes and connections go into a new
   ProjectVersion numbered previousMax + 1, appended to versions. *)
snapshot(p, k, time) ==
  [p EXCEPT !.versions =
     Append(p.versions, ProjectVersion(p, previousMax(p.versions) + 1, k, time))]

takeSnapshot ==
  /\ pc = "editor"
  /\ Len(project.versions) < MaxVersions
  /\ setAndSave(snapshot(project, ids, now))
  /\ ids' = ids + 1
  /\ last' = [op |-> "takeSnapshot", id |-> generateId(ids + 1), branch |-> ""]
  /\ UNCHANGED <<callVars, now, canvasState, rightPanelOpen, connectionMode,
                 connectionSource, selectedConnection, connectionEditOpen>>
  /\ UNCHANGED <<dragVars, genVars>>

NextVersions ==
  \/ Tick
  \/ handleTemplateDrop
  \/ handleNodeClick
  \/ deleteSelectedNode
  \/ takeSnapshot

InitVersions == Mounted({DiagramA, DiagramD})

SpecVersions == InitVersions /\ [][NextVersions]_vars

(***************************************************************************)
(* Generation of a design by the agent (handleGenerateDesign)              *)
(***************************************************************************)
(* Requirement texts: empty, whitespace only, and a text with words. *)
RequirementTexts == {"", " ", "shop"}

(* requirements.trim() *)
Trim(text) == IF text = " " THEN "" ELSE text

EnterRequirements == "Please enter system requirements first"
ErrorOccurred == "An error occurred while generating the design."
FailedToGenerate == "Failed to generate design. Please try again."
NoComponents ==
  "Agent response received but no architecture components were generated. Please try refining your requirements."

(* onChange of the requirements textarea *)
setRequirementsText ==
  /\ pc = "editor"
  /\ \E text \in RequirementTexts : requirements' = text
  /\ last' = [op |-> "setRequirements", id |-> NullId, branch |-> ""]
  /\ UNCHANGED <<callVars, storeVars, project, canvasState, rightPanelOpen,
                 connectionMode, connectionSource, selectedConnection,
                 connectionEditOpen, dragVars, isGenerating, generationError, agentCall>>

(* The guard of handleGenerateDesign comparing the text untrimmed: a mutant. *)
generateBranchUntrimmed(text) == IF text = "" THEN "empty" ELSE "start"

(* if (!requirements.trim()) { setGenerationError(...); return } *)
generateBranch(text) == IF Trim(text) = "" THEN "empty" ELSE "start"

(* handleGenerateDesign up to its await: the call in flight keeps the
   project of the render the handler was created in. *)
InFlight(c) == IF c.pending THEN <<c.project>> \o c.later ELSE <<>>

AgentCalls(projects) ==
  IF projects = <<>> THEN NoAgentCall
  ELSE [pending |-> TRUE, project |-> Head(projects), later |-> Tail(projects)]

(* The body of handleGenerateDesign up to its await, run as handler op:
   every call it issues joins the calls in flight, each with the project
   of the render its handler was created in. *)
generateDesign(op) ==
  /\ pc = "editor"
  /\ LET branch == generateBranch(requirements)
     IN /\ last' = [op |-> op, id |-> NullId, branch |-> branch]
        /\ IF branch = "empty"
             THEN /\ generationError' = EnterRequirements
                  /\ UNCHANGED <<isGenerating, agentCall>>
             ELSE /\ isGenerating' = TRUE
                  /\ generationError' = NoError
                  /\ agentCall' = AgentCalls(Append(InFlight(agentCall), project))
  /\ UNCHANGED <<callVars, storeVars, project, canvasState, rightPanelOpen,
                 connectionMode, connectionSource, selectedConnection,
                 connectionEditOpen, dragVars, requirements>>

(* handleGenerateDesign called with no call in flight, whatever the
   requirements text is. *)
handleGenerateDesign ==
  /\ ~agentCall.pending
  /\ generateDesign("handleGenerateDesign")

(* What the agent answers with. *)
AgentResponses ==
  { [data |-> [present |-> FALSE, val |-> EmptyObject],
     text |-> [present |-> FALSE, toks |-> <<>>]],
    [data |-> [present |-> TRUE,
               val |-> DataObject(<<AgentNodeA, AgentNodeB>>, <<AgentConnAB>>)],
     text |-> [present |-> FALSE, toks |-> <<>>]],
    [data |-> [present |-> FALSE, val |-> EmptyObject],
     text |-> [present |-> TRUE, toks |-> <<"fo", "null", "fc">>]] }

(* A node of an agent's payload with the id of AgentNodeA. *)
AgentNodeTwin == SystemNode(AgentId(1), "cache", 400, 300)

(* What callAIAgent settles with: a rejection, or a result
   {success, response: {status, ...}, error}. *)
AgentResults ==
  {[rejected |-> TRUE, success |-> FALSE, status |-> "error", error |-> "",
    response |-> r] : r \in AgentResponses}
  \cup [rejected : {FALSE}, success : BOOLEAN, status : {"success", "error"},
        error : {"", "Agent unavailable"}, response : AgentResponses]

(* The two modules that export parseAgentResponse. *)
Parsers == {"text", "data"}

parsed(parser, response, k) ==
  IF parser = "text" THEN parseAgentResponse(response, k)
  ELSE parseAgentResponseData(response)

(* The branch taken with the status of the response not looked at: a mutant. *)
resolutionIgnoringStatus(result, outcome) ==
  IF result.rejected THEN "rejected"
  ELSE IF result.success
    THEN IF outcome.threw THEN "threw"
         ELSE IF Len(outcome.nodes) > 0 THEN "applied" ELSE "empty"
  ELSE "failed"

(* The branch the rest of handleGenerateDesign takes once the call has
   settled. *)
resolution(result, outcome) ==
  IF result.rejected THEN "rejected"
  ELSE IF result.success /\ result.status = "success"
    THEN IF outcome.threw THEN "threw"
         ELSE IF Len(outcome.nodes) > 0 THEN "applied" ELSE "empty"
  ELSE "failed"

(* updatedProject: { ...project!, nodes, connections, status: 'completed' } *)
generatedProject(captured, outcome) ==
  [captured EXCEPT !.nodes = outcome.nodes,
                   !.connections = outcome.connections,
                   !.status = "completed"]

(* setIsGenerating(false) as the last statement of the try block, which a
   rejection or a throw skips: a mutant. *)
generatingAfterTry(branch) == branch \in {"rejected", "threw"}

(* isGenerating after the finally block: setIsGenerating(false), whatever
   the branch taken. *)
generatingAfter(branch) == FALSE

(* handleGenerateDesign from its await on: try, catch and finally. *)
agentSettlesWith(results) ==
  /\ pc = "editor"
  /\ agentCall.pending
  /\ \E result \in results, parser \in Parsers, i \in 1..Len(InFlight(agentCall)) :
       LET outcome == parsed(parser, result.response, ids)
           captured == InFlight(agentCall)[i]
           others == [j \in 1..(Len(InFlight(agentCall)) - 1) |->
                        InFlight(agentCall)[IF j < i THEN j ELSE j + 1]]
           branch == resolution(result, outcome)
           consumed == IF branch \in {"applied", "empty", "threw"} THEN outcome.ids ELSE 0
       IN /\ last' = [op |-> "agentSettles", id |-> NullId, branch |-> branch]
          /\ ret' = [fn |-> "callAIAgent", rejected |-> result.rejected,
                     success |-> result.success, status |-> result.status,
                     parsed |-> outcome]
          /\ consumed = 0 \/ ids < MaxGenerated
          /\ ids' = ids + consumed
          /\ CASE branch = "applied" ->
                    /\ setAndSave(generatedProject(captured, outcome))
                    /\ UNCHANGED generationError
               [] branch = "empty" ->
                    /\ generationError' = NoComponents
                    /\ UNCHANGED <<project, localStorage>>
               [] branch = "failed" ->
                    /\ generationError' =
                         (IF result.error # "" THEN result.error ELSE FailedToGenerate)
                    /\ UNCHANGED <<project, localStorage>>
               [] branch \in {"rejected", "threw"} ->
                    /\ generationError' = ErrorOccurred
                    /\ UNCHANGED <<project, localStorage>>
          /\ agentCall' = AgentCalls(others)
          /\ isGenerating' = generatingAfter(branch)
  /\ UNCHANGED <<pc, call, now, canvasState, rightPanelOpen, connectionMode,
                 connectionSource, selectedConnection, connectionEditOpen,
                 dragVars, requirements>>

agentSettles == agentSettlesWith(AgentResults)

NextGenerate ==
  \/ Tick
  \/ setRequirementsText
  \/ handleGenerateDesign
  \/ agentSettles
  \/ handleTemplateDrop

InitGenerate == Mounted({DiagramA, DiagramD})

SpecGenerate == InitGenerate /\ [][NextGenerate]_vars

(***************************************************************************)
(* Generation started from the Generate button                             *)
(***************************************************************************)
MaxCalls == 2

(* The Generate button disabled by the text alone: a mutant. *)
generateDisabledByText(generating, text) == Trim(text) = ""

(* disabled={isGenerating || !requirements.trim()} *)
generateDisabled(generating, text) == generating \/ Trim(text) = ""

(* A click on the Generate button: onClick={handleGenerateDesign}, which a
   disabled button does not deliver. *)
clickGenerate ==
  /\ ~generateDisabled(isGenerating, requirements)
  /\ Len(InFlight(agentCall)) < MaxCalls
  /\ generateDesign("clickGenerate")

NextTrigger ==
  \/ Tick
  \/ setRequirementsText
  \/ clickGenerate
  \/ agentSettles
  \/ handleTemplateDrop

SpecTrigger == InitGenerate /\ [][NextTrigger]_vars

(* The requirements box, the Generate button and the call of the agent,
   which settles: the promise the handler awaits is resolved or rejected. *)
NextSettle == setRequirementsText \/ clickGenerate \/ agentSettles

SpecSettle == InitGenerate /\ [][NextSettle]_vars /\ WF_vars(agentSettles)

(***************************************************************************)
(* Edits and view gestures made while a generation call is in flight       *)
(***************************************************************************)
(* The pointer is on no gesture and the view is the initial one. *)
AtRest ==
  /\ ~isPanning /\ ~draggedNode.present
  /\ canvasState.zoom = One /\ canvasState.pan = Origin

(* One generation call, and while it is in flight template drops and
   gestures that start from the view at rest. *)
NextInFlight ==
  \/ ret = NoReturn /\ ~agentCall.pending /\ setRequirementsText
  \/ ret = NoReturn /\ clickGenerate
  \/ agentSettles
  \/ agentCall.pending /\ AtRest /\ handleTemplateDrop
  \/ agentCall.pending /\ AtRest /\ handleZoom
  \/ agentCall.pending /\ AtRest /\ handleCanvasMouseDown
  \/ agentCall.pending /\ AtRest /\ project = agentCall.project /\ handleNodeDragStart
  \/ agentCall.pending /\ handleCanvasMouseMove
  \/ agentCall.pending /\ handleCanvasMouseUp

SpecInFlight == InitDrag /\ [][NextInFlight]_vars

(***************************************************************************)
(* Calls of createNodeFromTemplate, with the objects that the templates'   *)
(* defaultSpecs and the nodes' specifications refer to                     *)
(***************************************************************************)
MaxCreated == 2

MaxObjects == 5

(* Two of componentTemplates. *)
Catalogue == {"api-gateway", "database"}

(* The address of the object a template's defaultSpecs refers to. *)
defaultSpecs(template) == IF template = "api-gateway" THEN 1 ELSE 2

(* The objects by address, when the module is loaded. *)
InitialHeap ==
  <<[technology |-> "NGINX / Kong"], [technology |-> "PostgreSQL / MySQL"]>>

(* What is typed into the Technology input. *)
Technologies == {"Redis", "Kafka"}

(* The node createNodeFromTemplate returns, with its specifications: the
   reference the template holds. *)
createdNode(template, position, k) ==
  [node |-> createNodeFromTemplate(template, position, k),
   specifications |-> defaultSpecs(template)]

InitTemplates ==
  /\ pc = "library"
  /\ call = [fn |-> "createNodeFromTemplate", heap |-> InitialHeap, created |-> <<>>]
  /\ ret = NoReturn
  /\ Unmounted

CreateFromTemplate ==
  /\ pc = "library"
  /\ Len(call.created) < MaxCreated
  /\ \E template \in Catalogue :
       /\ call' = [call EXCEPT
                     !.created = Append(@, createdNode(template, Origin, ids))]
       /\ ret' = [fn |-> "createNodeFromTemplate", index |-> Len(call.created) + 1]
  /\ ids' = ids + 1
  /\ UNCHANGED <<pc, localStorage, now, editorVars>>

(* The Technology input of the detail panel on a created node:
   specifications: {...selectedNode.specifications, technology: value}. *)
EditSpecifications ==
  /\ pc = "library"
  /\ Len(call.heap) < MaxObjects
  /\ \E i \in 1..Len(call.created), value \in Technologies :
       LET spread == [call.heap[call.created[i].specifications] EXCEPT
                        !.technology = value]
       IN /\ call' = [call EXCEPT
                        !.heap = Append(@, spread),
                        !.created[i].specifications = Len(call.heap) + 1]
          /\ ret' = [fn |-> "updateSelectedNode", index |-> i]
  /\ UNCHANGED <<pc, storeVars, editorVars>>

NextTemplates == CreateFromTemplate \/ EditSpecifications

SpecTemplates == InitTemplates /\ [][NextTemplates]_vars

(***************************************************************************)
(* The nodes of the project under drops, selections, deletions and         *)
(* generations                                                             *)
(***************************************************************************)
(* Successful results whose data name their nodes as the agent pleases, and
   a failure. *)
NamedResults ==
  {[rejected |-> FALSE, success |-> TRUE, status |-> "success", error |-> "",
    response |-> [data |-> [present |-> TRUE, val |-> DataObject(nodes, <<>>)],
                  text |-> [present |-> FALSE, toks |-> <<>>]]] :
     nodes \in {<<AgentNodeA, AgentNodeB>>, <<AgentNodeA, AgentNodeTwin>>}}
  \cup {[rejected |-> FALSE, success |-> FALSE, status |-> "error",
         error |-> "Agent unavailable",
         response |-> [data |-> [present |-> FALSE, val |-> EmptyObject],
                       text |-> [present |-> FALSE, toks |-> <<>>]]]}

NextNodes ==
  \/ handleTemplateDrop
  \/ handleNodeClick
  \/ deleteSelectedNode
  \/ ret = NoReturn /\ ~agentCall.pending /\ setRequirementsText
  \/ ret = NoReturn /\ clickGenerate
  \/ agentSettlesWith(NamedResults)

SpecNodes == Init /\ [][NextNodes]_vars

(***************************************************************************)
(* The connections the page draws, and a project that holds a connection   *)
(* to a node it does not have                                              *)
(***************************************************************************)
(* The connection layer with the target node not looked for: a mutant. *)
renderedConnectionsBySource(p) ==
  LET Drawn(conn) == \E i \in 1..Len(p.nodes) : p.nodes[i].id = conn.source
  IN SelectSeq(p.connections, Drawn)

(* project.connections.map(...) of the connection layer: the connections
   for which a path is returned, not null. *)
renderedConnections(p) ==
  LET Drawn(conn) ==
        /\ \E i \in 1..Len(p.nodes) : p.nodes[i].id = conn.source
        /\ \E i \in 1..Len(p.nodes) : p.nodes[i].id = conn.target
  IN SelectSeq(p.connections, Drawn)

(* Nodes A and B, with the connection from B to a node C that is not there. *)
DiagramF ==
  [nodes |-> <<AgentNodeA, AgentNodeB>>,
   connections |-> <<AgentConnAB, AgentConnBC>>]

NextDangling ==
  \/ requirements = "" /\ toggleConnectionMode
  \/ handleNodeClick
  \/ deleteSelectedNode
  \/ handleConnectionClick
  \/ deleteConnection
  \/ ret = NoReturn /\ ~agentCall.pending /\ setRequirementsText
  \/ ret = NoReturn /\ clickGenerate
  \/ agentSettlesWith(NamedResults)

SpecDangling == Mounted({DiagramF}) /\ [][NextDangling]_vars

(***************************************************************************)
(* The editor on a stored project that has versions                        *)
(***************************************************************************)
(* The versions of the stored project. *)
StoredVersions ==
  <<[id |-> <<"version", 1>>, version |-> 1, timestamp |-> 0,
     nodes |-> <<AgentNodeA>>, connections |-> <<>>],
    [id |-> <<"version", 2>>, version |-> 2, timestamp |-> 0,
     nodes |-> DiagramE.nodes, connections |-> DiagramE.connections]>>

InitVersioned ==
  /\ pc = "editor" /\ call = NoCall /\ ret = NoReturn
  /\ now = 0 /\ ids = 1
  /\ localStorage = save(create(NoItem, "Untitled Project", 0, 0),
                         [newProject("Untitled Project", 0, 0) EXCEPT
                            !.nodes = DiagramE.nodes,
                            !.connections = DiagramE.connections,
                            !.versions = StoredVersions],
                         0)
  /\ project = getById(localStorage, generateId(1)).project
  /\ HooksInitial

(* Nothing of a generation has begun. *)
NotGenerated == ret = NoReturn /\ ~agentCall.pending /\ requirements = ""

(* No panel is open and connect mode is off. *)
Settled ==
  /\ ~connectionMode /\ ~rightPanelOpen
  /\ ~selectedConnection.present /\ ~connectionEditOpen

(* Neither a generation nor a drag has begun. *)
Editing == NotGenerated /\ pointer.down = Origin

(* The handlers that store the project: a drag of a node, or drops, clicks
   and deletions; then a generation, if no id has been generated. *)
NextVersioned ==
  \/ Editing /\ Settled /\ Len(project.nodes) = 2 /\ handleTemplateDrop
  \/ Editing /\ Len(project.nodes) = 2 /\ toggleConnectionMode
  \/ Editing /\ handleNodeClick
  \/ Editing /\ deleteSelectedNode
  \/ Editing /\ Settled /\ handleConnectionClick
  \/ Editing /\ deleteConnection
  \/ NotGenerated /\ AtRest /\ last = NoHandler
       /\ handleNodeDragStart /\ last'.branch = "box"
  \/ draggedNode.present /\ handleCanvasMouseMove
  \/ draggedNode.present /\ handleCanvasMouseUp
  \/ ret = NoReturn /\ ~agentCall.pending /\ AtRest /\ Settled /\ ids = 1
       /\ setRequirementsText
  \/ ret = NoReturn /\ AtRest /\ Settled /\ ids = 1 /\ clickGenerate
  \/ agentSettlesWith(NamedResults)

SpecVersioned == InitVersioned /\ [][NextVersioned]_vars

(***************************************************************************)
(* The zoom buttons and the fit-to-view button                             *)
(***************************************************************************)
(* rect.width and rect.height of the canvas element. *)
ViewportSizes == {FromInt(n) : n \in {0, 50, 300, 1600}}

(* The "Fit to view" button. *)
handleFitToView ==
  /\ pc = "editor"
  /\ \E width \in ViewportSizes, height \in ViewportSizes :
       LET fit == fitToView(project.nodes, width, height, DefaultPadding)
       IN /\ canvasState' = [canvasState EXCEPT !.zoom = fit.zoom, !.pan = fit.pan]
          /\ last' = [op |-> "handleFitToView", id |-> NullId,
                      branch |-> IF project.nodes = <<>> THEN "empty" ELSE "fit"]
  /\ UNCHANGED <<callVars, storeVars, project, rightPanelOpen, connectionMode,
                 connectionSource, selectedConnection, connectionEditOpen,
                 dragVars, genVars>>

NextView == handleZoom \/ handleFitToView

SpecView == Init /\ [][NextView]_vars

(***************************************************************************)
(* Every handler that stores the project                                   *)
(***************************************************************************)
(* The Save button of the header: saveProject. *)
saveProject ==
  /\ pc = "editor"
  /\ setAndSave(savedProject(project, requirements))
  /\ last' = [op |-> "saveProject", id |-> NullId, branch |-> ""]
  /\ UNCHANGED <<callVars, now, ids, canvasState, rightPanelOpen,
                 connectionMode, connectionSource, selectedConnection,
                 connectionEditOpen, draggedNode, dragOffset, isPanning,
                 panStart, pointer, genVars>>

(* The handlers that store the project, after a press of "Fit to view" or
   with the view as it is mounted. *)
NextPersist ==
  \/ last = NoHandler /\ handleFitToView
  \/ Editing /\ Settled /\ saveProject
  \/ NextVersioned

SpecPersist == InitVersioned /\ [][NextPersist]_vars

(***************************************************************************)
(* Properties of CanvasUtils                                               *)
(***************************************************************************)
(* x * y and x + y are computed without rounding. *)
ExactMul(x, y) == IsNum(x) /\ IsNum(y) /\ FMul(x, y) = Norm(x[2] * y[2], x[3] + y[3])

ExactAdd(x, y) ==
  /\ IsNum(x) /\ IsNum(y)
  /\ \/ x[2] = 0
     \/ y[2] = 0
     \/ /\ Abs(x[3] - y[3]) <= 2 * MantissaBits
        /\ FAdd(x, y) =
             IF x[3] >= y[3] THEN Norm(x[2] * Pow2(x[3] - y[3]) + y[2], y[3])
             ELSE Norm(y[2] * Pow2(y[3] - x[3]) + x[2], x[3])

(* canvasToScreen rounds neither of its products nor of its sums. *)
ToScreenExact ==
  /\ ExactMul(call.x, call.zoom) /\ ExactAdd(FMul(call.x, call.zoom), call.pan.x)
  /\ ExactMul(call.y, call.zoom) /\ ExactAdd(FMul(call.y, call.zoom), call.pan.y)

(* C4, as stated: for every canvas point p, pan and zoom > 0,
   screenToCanvas(canvasToScreen(p, pan, zoom), pan, zoom) equals p. *)
C4_RoundTripAlways ==
  pc = "done" => ret.canvas = Point(call.x, call.y)

(* C4, amended: screenToCanvas(canvasToScreen(p, pan, zoom), pan, zoom)
   equals p whenever canvasToScreen computes p * zoom and p * zoom + pan
   without rounding. *)
C4_RoundTripExact ==
  (pc = "done" /\ ToScreenExact) => ret.canvas = Point(call.x, call.y)

C4_Witness ==
  /\ pc = "done" /\ ToScreenExact
  /\ call.zoom # One /\ call.pan.x # Zero /\ call.x # Zero /\ call.y # Zero

(* C5: for every node set and every viewport width and height, fitToView
   never returns a zoom greater than 1. *)
C5_FitZoomAtMostOne ==
  pc = "done" => ~FGt(ret.zoom, One)

(* A viewport larger than the content of a non-empty node set: zoom is 1. *)
C5_Witness ==
  /\ pc = "done" /\ Len(call.nodes) > 0 /\ call.padding = DefaultPadding
  /\ call.containerWidth = FromInt(1600) /\ call.containerHeight = FromInt(1600)
  /\ ret.zoom = One

(* C6: fitToView on an empty node set returns zoom = 1 and pan = (0, 0),
   whatever the viewport size and padding. *)
C6_FitEmptyIsIdentity ==
  (pc = "done" /\ call.nodes = <<>>) => ret = [zoom |-> One, pan |-> Origin]

C6_Witness ==
  /\ pc = "done" /\ call.nodes = <<>>
  /\ call.containerWidth # Zero /\ call.padding # DefaultPadding
  /\ ret.zoom = One

(***************************************************************************)
(* Properties of parseAgentResponse                                        *)
(***************************************************************************)
GivenData == call.response.data

GivenText == call.response.text

StructuredNodes ==
  GivenData.present /\ GivenData.val.hasNodes /\ GivenData.val.nodes # <<>>

(* C8: when the response carries a structured data object whose nodes array
   is non-empty, parseAgentResponse returns exactly those nodes (and that
   object's connections), whatever the free text holds. *)
C8_StructuredDataVerbatim ==
  (pc \in {"text", "data"} /\ StructuredNodes) =>
    /\ ~ret.threw
    /\ ret.nodes = GivenData.val.nodes
    /\ ret.connections = IF GivenData.val.hasConnections
                           THEN GivenData.val.connections ELSE <<>>

(* Structured nodes beside a text whose fenced block holds other nodes. *)
C8_Witness ==
  /\ pc = "text" /\ StructuredNodes
  /\ GivenText.present /\ GivenText.toks = <<"fo", "{", "N1", "}", "fc">>
  /\ Len(ret.nodes) = 2

(* The fenced blocks of a text: an opener, the next three backticks (a
   closing fence, or those of another opener), and no fence between them. *)
FencedBlocks(toks) ==
  {<<i, j>> \in (1..Len(toks)) \X (1..Len(toks)) :
     /\ i < j /\ toks[i] = "fo" /\ toks[j] \in FenceTokens
     /\ \A m \in (i + 1)..(j - 1) : toks[m] \notin FenceTokens}

BlockValue(toks, b) == JsonParse(Slice(toks, b[1] + 1, b[2] - 1))

(* The block parses to a payload with a non-empty nodes array. *)
BlockHasNodes(toks, b) ==
  LET v == BlockValue(toks, b)
  IN v.ok /\ v.val.t = "obj" /\ v.val.hasNodes /\ v.val.nodes # <<>>

(* The block the search meets first: no opener before its own. *)
FirstBlock(toks, b) ==
  /\ b \in FencedBlocks(toks)
  /\ \A m \in 1..(b[1] - 1) : toks[m] # "fo"

TextOnly == pc = "text" /\ ~GivenData.present /\ GivenText.present

(* Every fenced block of the text parses, and to an object. *)
BlocksHoldObjects(toks) ==
  \A b \in FencedBlocks(toks) :
    BlockValue(toks, b).ok /\ BlockValue(toks, b).val.t = "obj"

(* C9, as stated: with no structured data and a free text that contains a
   fenced JSON block parsing to a payload with non-empty nodes,
   parseAgentResponse returns exactly the node list of such a block.
   (Stated for the texts all of whose fenced blocks are well-formed objects:
   what a malformed block or a block holding null does is the subject of
   C24 and C11.) *)
C9_AnyFencedBlock ==
  (/\ TextOnly /\ BlocksHoldObjects(GivenText.toks)
   /\ \E b \in FencedBlocks(GivenText.toks) : BlockHasNodes(GivenText.toks, b)) =>
    \E b \in FencedBlocks(GivenText.toks) :
      /\ BlockHasNodes(GivenText.toks, b)
      /\ ~ret.threw
      /\ ret.nodes = BlockValue(GivenText.toks, b).val.nodes

(* C9, amended: with no structured data and a free text whose first fenced
   JSON block parses to a payload with non-empty nodes, parseAgentResponse
   returns exactly that block's node list. *)
C9_FirstFencedBlock ==
  \A b \in FencedBlocks(GivenText.toks) :
    (TextOnly /\ FirstBlock(GivenText.toks, b) /\ BlockHasNodes(GivenText.toks, b)) =>
      /\ ~ret.threw
      /\ ret.nodes = BlockValue(GivenText.toks, b).val.nodes

(* A first block with nodes, after a stray brace and before an object that
   holds other nodes. *)
C9_Witness ==
  /\ TextOnly
  /\ \E b \in FencedBlocks(GivenText.toks) :
       /\ FirstBlock(GivenText.toks, b) /\ BlockHasNodes(GivenText.toks, b)
       /\ b[1] > 1
  /\ GivenText.toks[1] = "{"
  /\ Len(ret.nodes) = 1

(* Neither the first fenced block nor the text from its first '{' to its
   last '}' parses. *)
Unparseable(toks) ==
  /\ \A b \in FencedBlocks(toks) : ~BlockValue(toks, b).ok
  /\ ~BraceParse(toks).ok

NothingToParse ==
  /\ pc = "text" /\ ~GivenData.present
  /\ (~GivenText.present \/ Unparseable(GivenText.toks))

(* C10: when the response yields neither structured data nor parseable text,
   parseAgentResponse returns the 4 nodes api-gateway, service, database,
   cache and the 3 connections gateway->service, service->database,
   service->cache, each source and target the id of a node of that same
   call, never an empty or stale id. *)
C10_DefaultArchitecture ==
  NothingToParse =>
    /\ ~ret.threw
    /\ [i \in 1..Len(ret.nodes) |-> ret.nodes[i].type]
         = <<"api-gateway", "service", "database", "cache">>
    /\ Cardinality(NodeIds(ret.nodes)) = 4
    /\ NodeIds(ret.nodes) \subseteq {generateId(j) : j \in (call.k + 1)..(call.k + 10)}
    /\ [i \in 1..Len(ret.connections) |->
          <<ret.connections[i].source, ret.connections[i].target>>]
         = << <<ret.nodes[1].id, ret.nodes[2].id>>,
              <<ret.nodes[2].id, ret.nodes[3].id>>,
              <<ret.nodes[2].id, ret.nodes[4].id>> >>

(* A malformed fenced block, after earlier identifiers were generated. *)
C10_Witness ==
  /\ NothingToParse /\ GivenText.present
  /\ GivenText.toks = <<"p", "fo", "{", "N2", "fc">>
  /\ call.k = 3 /\ Len(ret.nodes) = 4

(***************************************************************************)
(* Properties of ProjectStorage                                            *)
(***************************************************************************)
(* C7: for every project P, save(P) followed by getById(P.id) returns a
   project equal to P in every field except updated_at, both when P.id was
   already stored and when it was not. *)
C7_SaveThenGetById ==
  pc = "got" =>
    /\ ret.found
    /\ [ret.project EXCEPT !.updated_at = call.project.updated_at] = call.project

(* An update of a stored project that another project follows in the store,
   read back with a refreshed updated_at. *)
C7_Witness ==
  /\ pc = "got" /\ call.existed /\ ret.found
  /\ ret.project.updated_at # call.project.updated_at
  /\ call.project.nodes # <<>>
  /\ Len(getAll(localStorage)) = 2
  /\ getAll(localStorage)[1].id = call.project.id

(***************************************************************************)
(* Properties of the project page                                          *)
(***************************************************************************)
Touches(c, nodeId) == c.source = nodeId \/ c.target = nodeId

(* What ProjectStorage holds for the project of the page agrees with p in
   every field but updated_at, which save refreshes. *)
PersistedAs(item, p) ==
  LET stored == getById(item, p.id)
  IN /\ stored.found
     /\ [stored.project EXCEPT !.updated_at = p.updated_at] = p

(* C1: deleting the selected node N is one step after which N is absent from
   the project's nodes, no connection has N as source or target, every other
   node and every connection not touching N is kept in its original order,
   and that same project is what is persisted. *)
C1_DeleteSelectedNodeAtomic ==
  [][(last'.op = "deleteSelectedNode" /\ last' # last) =>
       LET N == canvasState.selectedNodeId
           OtherNode(n) == n.id # N
           NotTouching(c) == ~Touches(c, N)
       IN /\ last'.id = N
          /\ N \notin NodeIds(project'.nodes)
          /\ \A i \in 1..Len(project'.connections) :
               ~Touches(project'.connections[i], N)
          /\ project'.nodes = SelectSeq(project.nodes, OtherNode)
          /\ project'.connections = SelectSeq(project.connections, NotTouching)
          /\ PersistedAs(localStorage', project')]_vars

(* Node A of the three-node diagram has been deleted: B and C and the
   connection between them remain, and so in the store. *)
C1_Witness ==
  /\ last.op = "deleteSelectedNode" /\ last.id = AgentNodeA.id
  /\ project.nodes = <<AgentNodeB, AgentNodeC>>
  /\ project.connections = <<AgentConnBC>>
  /\ PersistedAs(localStorage, project)

(* C2: in every state reached by template drops, node selections, connect-mode
   toggles, connect-mode node clicks, node deletions and connection deletions
   from a project without dangling connections, the source and the target of
   every connection are ids of nodes in the project's node list. *)
C2_NoDanglingConnections ==
  \A i \in 1..Len(project.connections) :
    /\ project.connections[i].source \in NodeIds(project.nodes)
    /\ project.connections[i].target \in NodeIds(project.nodes)

(* C3: in connect mode with pending source S a click on S creates no
   connection, persists nothing and leaves connect mode on with S pending;
   and a connection a node click creates never has its source as target. *)
C3_SelfClickIsNoOp ==
  [][/\ (/\ last'.op = "handleNodeClick"
         /\ connectionMode /\ ~Falsy(connectionSource)
         /\ last'.id = connectionSource)
       => UNCHANGED <<project, localStorage, ids, connectionMode, connectionSource>>
     /\ (last'.op = "handleNodeClick" /\ project'.connections # project.connections)
       => LET c == project'.connections[Len(project'.connections)]
          IN c.source # c.target]_vars

(* The pending source has just been clicked again. *)
C3_Witness ==
  /\ last.op = "handleNodeClick" /\ last.branch = "self"
  /\ connectionMode /\ connectionSource = last.id
  /\ last.id \in NodeIds(project.nodes)

(* C11: for every agent response (missing fields, a fenced block that parses
   to a non-object such as null, malformed JSON) parseAgentResponse does not
   raise to its caller and returns a non-empty nodes array. *)
C11_NeverRaisesNonEmpty ==
  pc = "text" => (~ret.threw /\ ret.nodes # <<>>)

(***************************************************************************)
(* Properties of the canvas                                                *)
(***************************************************************************)
(* clamp(z, 0.1, 2.0) as the claim words it. *)
ClampedTo(z) ==
  IF FGt(z, Two) THEN Two ELSE IF FLt(z, Tenth) THEN Tenth ELSE z

(* C12: every zoom-in or zoom-out sets zoom to clamp(zoom + delta, 0.1, 2.0):
   from zoom 1.0 the zoom stays in [0.1, 2.0], a step that would pass 2.0
   gives exactly 2.0, a step that would pass below 0.1 gives exactly 0.1,
   and pan and the project, in memory and stored, are left unchanged. *)
C12_ZoomClamped ==
  /\ [](FLe(Tenth, canvasState.zoom) /\ FLe(canvasState.zoom, Two))
  /\ [][last'.op = "handleZoom" =>
          LET delta == IF last'.branch = "in" THEN Tenth ELSE FNeg(Tenth)
          IN /\ canvasState'.zoom = ClampedTo(FAdd(canvasState.zoom, delta))
             /\ canvasState'.pan = canvasState.pan
             /\ UNCHANGED <<project, localStorage>>]_vars

(* Zooming out has reached the lower clamp, with the canvas panned. *)
C12_Witness ==
  /\ last.op = "handleZoom" /\ last.branch = "out"
  /\ canvasState.zoom = Tenth
  /\ canvasState.pan # Origin

(* C13: a pointer-move displaced by (dx, dy) from the pointer-down on a node
   puts the node at its position at pointer-down plus (dx/zoom, dy/zoom),
   for any pan and zoom > 0; with zero displacement the position is
   unchanged. *)
C13_DragMovesByDelta ==
  [][(last'.op = "handleCanvasMouseMove" /\ last'.branch = "drag") =>
       LET from == draggedNode.node.position
           dx == FSub(pointer'.at.x, pointer'.down.x)
           dy == FSub(pointer'.at.y, pointer'.down.y)
       IN PositionOf(project'.nodes, draggedNode.node.id) =
            Point(FAdd(from.x, FDiv(dx, canvasState.zoom)),
                  FAdd(from.y, FDiv(dy, canvasState.zoom)))]_vars

(***************************************************************************)
(* Properties of ProjectStorage, continued                                 *)
(***************************************************************************)
WithId(projects, id) == {i \in 1..Len(projects) : projects[i].id = id}

Others(projects, id) ==
  LET Other(p) == p.id # id
  IN SelectSeq(projects, Other)

(* A step of save: the store before and after, and the project saved. *)
SaveStep == pc = "idle" /\ pc' = "saved"

(* After save(P) the store holds exactly one project with P.id and every
   other stored project is as it was. *)
UpsertById ==
  LET P == call'.project
  IN /\ Cardinality(WithId(getAll(localStorage'), P.id)) = 1
     /\ Others(getAll(localStorage'), P.id) = Others(getAll(localStorage), P.id)

(* C14, as stated: save is an upsert by id; when P.id was stored the stored
   updated_at becomes the current time, and when P.id is new the stored
   record has created_at = updated_at = the time of the save. *)
C14_SaveStampsInsert ==
  [][SaveStep =>
       LET P == call'.project
           stored == getById(localStorage', P.id).project
       IN /\ UpsertById
          /\ call'.existed => stored.updated_at = now
          /\ ~call'.existed => (stored.created_at = now /\ stored.updated_at = now)]_vars

(* C14, amended: save is an upsert by id; when P.id was stored the stored
   record is P with updated_at the current time, and when P.id is new the
   record is stored as given, with P's own created_at and updated_at; it is
   create that builds its record with both set from the clock. *)
C14_SaveUpsert ==
  [][/\ SaveStep =>
          LET P == call'.project
              stored == getById(localStorage', P.id).project
          IN /\ UpsertById
             /\ call'.existed => stored = [P EXCEPT !.updated_at = now]
             /\ ~call'.existed => stored = P
     /\ (pc = "idle" /\ ids' = ids + 1) =>
          LET stored == getById(localStorage', generateId(ids')).project
          IN /\ stored.created_at = now /\ stored.updated_at = now
             /\ Others(getAll(localStorage'), stored.id) = getAll(localStorage)]_vars

(* A project created earlier and deleted since has been saved anew, beside
   another stored project: it is stored with its old timestamps. *)
C14_Witness ==
  /\ pc = "saved" /\ ~call.existed
  /\ Len(getAll(localStorage)) = 2
  /\ getById(localStorage, call.project.id).project = call.project
  /\ call.project.updated_at < now

(* C15: delete is idempotent: deleting an id that is not stored raises no
   error and leaves the stored projects unchanged, and deleting the same id
   a second time leaves the store as the first deletion left it. *)
C15_DeleteIdempotent ==
  [][/\ (pc = "idle" /\ pc' = "deleted" /\ ~call'.existed) =>
          getAll(localStorage') = getAll(localStorage)
     /\ (pc = "idle" /\ pc' = "deleted") =>
          /\ WithId(getAll(localStorage'), call'.project.id) = {}
          /\ getAll(localStorage') = Others(getAll(localStorage), call'.project.id)
     /\ (pc = "deleted" /\ pc' = "deleted again") =>
          localStorage' = localStorage]_vars

(* A stored project was deleted, and deleted again, with another project
   left in the store. *)
C15_Witness ==
  /\ pc = "deleted again" /\ call.existed
  /\ Len(getAll(localStorage)) = 1
  /\ getAll(localStorage)[1].id # call.project.id

(* C16: when the persistence backend is absent or holds unparseable data,
   getAll returns an empty list and getById an absent value; neither
   raises. *)
Degraded == localStorage.kind \in {"no window", "absent", "empty", "unparseable"}

C16_ReadsDegradeToEmpty ==
  (pc \in {"getAll", "getById"} /\ Degraded) =>
     (~ret.threw /\ ret.projects = <<>> /\ ~ret.found)

(* C17: taking a snapshot appends to project.versions a new ProjectVersion
   holding the current nodes and connections, numbered (largest existing
   version) + 1 and 1 when there is none; the version numbers of versions
   are strictly increasing, and no later edit changes a version taken. *)
Increasing(versions) ==
  \A i, j \in 1..Len(versions) : i < j => versions[i].version < versions[j].version

C17_SnapshotAppends ==
  /\ [](/\ Increasing(project.versions)
        /\ project.versions # <<>> => project.versions[1].version = 1
        /\ getById(localStorage, project.id).project.versions = project.versions)
  /\ [][/\ \A i \in 1..Len(project.versions) :
              /\ Len(project'.versions) >= i
              /\ project'.versions[i] = project.versions[i]
        /\ (last'.op = "takeSnapshot" /\ ids' # ids) =>
              LET taken == project'.versions[Len(project'.versions)]
              IN /\ Len(project'.versions) = Len(project.versions) + 1
                 /\ taken.nodes = project.nodes
                 /\ taken.connections = project.connections
                 /\ taken.version = previousMax(project.versions) + 1
                 /\ project'.nodes = project.nodes
                 /\ project'.connections = project.connections]_vars

(* Two snapshots of different diagrams, and an edit after the second. *)
C17_Witness ==
  /\ Len(project.versions) = 2
  /\ project.versions[2].version = 2
  /\ project.versions[1].nodes # project.versions[2].nodes
  /\ project.nodes # project.versions[2].nodes

(* C18: requesting generation while the requirements text is empty or
   whitespace only reports an error, starts no agent call, leaves
   isGenerating unset and leaves the project in memory and the persisted
   store as they were. *)
GenerateRequested ==
  /\ last'.op = "handleGenerateDesign"
  /\ now' = now /\ requirements' = requirements /\ ~agentCall.pending

C18_EmptyRequirementsRejected ==
  [][(GenerateRequested /\ Trim(requirements) = "") =>
        /\ generationError' = EnterRequirements
        /\ ~agentCall'.pending
        /\ ~isGenerating'
        /\ project' = project
        /\ localStorage' = localStorage]_vars

(* Generation was requested with a whitespace-only text. *)
C18_Witness ==
  /\ last.op = "handleGenerateDesign" /\ last.branch = "empty"
  /\ requirements = " "
  /\ generationError = EnterRequirements
  /\ ~isGenerating /\ ~agentCall.pending

(* C19: when the agent call fails (the call is rejected, the result is
   unsuccessful, or its status is not success) a generation error message
   is set, the status of the project stays what it was, and its nodes and
   connections, in memory and persisted, are what they were before the
   call settled. *)
CallSettles == agentCall.pending /\ ~agentCall'.pending

Persisted(p) == getById(localStorage, p.id).project

C19_FailureKeepsProject ==
  [][(CallSettles /\ (ret'.rejected \/ ~ret'.success \/ ret'.status # "success")) =>
        /\ generationError' # NoError
        /\ ~isGenerating'
        /\ project'.status = project.status
        /\ project'.nodes = project.nodes
        /\ project'.connections = project.connections
        /\ Persisted(project)' = Persisted(project)]_vars

(* A call failed with the agent's own message, after an edit made while
   it was in flight. *)
C19_Witness ==
  /\ last.op = "agentSettles" /\ ~ret.rejected /\ ret.success /\ ret.status = "error"
  /\ generationError = "Agent unavailable"
  /\ project.status = "draft"
  /\ Len(project.nodes) = 2
  /\ Persisted(project).nodes = project.nodes

(* C20: generation moves the status of the project draft -> generating ->
   completed: while a generation request is in flight the status is
   generating, and the status becomes completed only in the step in which
   the call settles successfully. *)
C20_StatusGenerating ==
  /\ [](agentCall.pending => project.status = "generating")
  /\ [][(project.status # "completed" /\ project'.status = "completed") =>
           (CallSettles /\ ~ret'.rejected /\ ret'.success /\ ret'.status = "success")]_vars

(* C21: at most one generation request is outstanding at any time: while
   isGenerating is true the Generate button is disabled, so no second agent
   call is issued before the first has settled. *)
C21_OneCallOutstanding ==
  /\ [](/\ Len(InFlight(agentCall)) <= 1
        /\ agentCall.pending <=> isGenerating
        /\ isGenerating => generateDisabled(isGenerating, requirements))
  /\ [][isGenerating => Len(InFlight(agentCall')) <= Len(InFlight(agentCall))]_vars

(* A second generation in flight, the first one settled, with a text that
   would enable the button were no call pending. *)
C21_Witness ==
  /\ agentCall.pending /\ isGenerating
  /\ last.op = "clickGenerate" /\ last.branch = "start"
  /\ ret.fn = "callAIAgent"
  /\ Trim(requirements) # ""

(* C22: when a generation call in flight resolves successfully, the nodes,
   connections and status of the project are replaced in one step by the
   normalizer's output and status completed, and that project is persisted;
   edits made while the call was in flight are not merged into it; pan,
   zoom and drag stay accepted during the call. *)
ACallSettles == Len(InFlight(agentCall')) < Len(InFlight(agentCall))

ResolvedSuccessfully == ~ret.rejected /\ ret.success /\ ret.status = "success"

ReplacedByOutput ==
  /\ project'.nodes = ret'.parsed.nodes
  /\ project'.connections = ret'.parsed.connections
  /\ project'.status = "completed"
  /\ Persisted(project)'.nodes = project'.nodes
  /\ Persisted(project)'.connections = project'.connections
  /\ Persisted(project)'.status = "completed"
  /\ UNCHANGED <<canvasState, dragVars>>

C22_SuccessReplacesProject ==
  [][(ACallSettles /\ ResolvedSuccessfully') => ReplacedByOutput]_vars

(* The same, for the calls whose normalized result holds nodes. *)
NodesReplaceProject ==
  [][(ACallSettles /\ ResolvedSuccessfully'
        /\ ~ret'.parsed.threw /\ ret'.parsed.nodes # <<>>) => ReplacedByOutput]_vars

(* A zoom step, a pan and a node drag made while the call is in flight. *)
ZoomedInFlight == agentCall.pending /\ last.op = "handleZoom" /\ canvasState.zoom # One

PannedInFlight ==
  agentCall.pending /\ last.op = "handleCanvasMouseMove" /\ canvasState.pan # Origin

DraggedInFlight ==
  /\ agentCall.pending /\ last.op = "handleCanvasMouseMove"
  /\ project.nodes # agentCall.project.nodes

(* C23: in connect mode with pending source S, a click on a node T other
   than S appends exactly one connection {source S, target T, type sync,
   label Connection, protocol HTTP} to the project, persists the project,
   switches connect mode off and clears the pending source; a further node
   click then creates no connection. *)
NodeClicked == last'.op = "handleNodeClick" /\ now' = now

ConnectionIds(connections) == {connections[i].id : i \in 1..Len(connections)}

C23_ConnectCreatesOneEdge ==
  [][/\ (NodeClicked /\ connectionMode /\ ~Falsy(connectionSource)
           /\ last'.id # connectionSource) =>
          /\ Len(project'.connections) = Len(project.connections) + 1
          /\ \A i \in 1..Len(project.connections) :
               project'.connections[i] = project.connections[i]
          /\ LET made == project'.connections[Len(project'.connections)]
             IN /\ made.source = connectionSource /\ made.target = last'.id
                /\ made.type = "sync"
                /\ made.label = "Connection" /\ made.protocol = "HTTP"
                /\ made.id \notin ConnectionIds(project.connections)
          /\ project'.nodes = project.nodes
          /\ Persisted(project)'.connections = project'.connections
          /\ ~connectionMode' /\ Falsy(connectionSource')
     /\ (NodeClicked /\ ~connectionMode) =>
          project'.connections = project.connections]_vars

(* A connection was drawn onto a project that had one, and the next click
   selected a node. *)
C23_Witness ==
  /\ last.op = "handleNodeClick" /\ last.branch = "select"
  /\ ~connectionMode /\ Falsy(connectionSource)
  /\ Len(project.connections) = 2
  /\ project.connections[2].label = "Connection"
  /\ project.connections[2].target # project.connections[2].source
  /\ Persisted(project).connections = project.connections

(* C24: a fenced JSON block that is found but is not valid JSON counts as
   no data found and the search goes on: the text from its first '{' to its
   last '}' is tried, and when that parses to a payload with non-empty
   nodes those nodes are returned, not the fallback diagram. *)
FirstBlockMalformed(toks) ==
  FenceMatch(toks).found /\ ~JsonParse(FenceMatch(toks).group).ok

BracesHoldNodes(toks) ==
  LET v == BraceParse(toks)
  IN v.tried /\ v.ok /\ v.val.t = "obj" /\ v.val.hasNodes /\ v.val.nodes # <<>>

C24_MalformedFenceFallsThrough ==
  (/\ TextOnly
   /\ FirstBlockMalformed(GivenText.toks)
   /\ BracesHoldNodes(GivenText.toks)) =>
     /\ ~ret.threw
     /\ ret.nodes = BraceParse(GivenText.toks).val.nodes

(* C25: the resolution order is first success: when the structured data
   object is present with an empty nodes array and the free text holds a
   parseable JSON payload with non-empty nodes, the nodes of the text's
   payload are returned, not the fallback diagram. *)
StructuredEmpty ==
  /\ pc = "text" /\ GivenData.present
  /\ GivenData.val.t = "obj" /\ GivenData.val.hasNodes /\ GivenData.val.nodes = <<>>

(* The payload steps 2 and 3 find in the text: the first fenced block, or
   with no fenced block the text between the outer braces. *)
TextPayload(toks) ==
  IF FenceMatch(toks).found
    THEN [tried |-> TRUE] @@ JsonParse(FenceMatch(toks).group)
    ELSE BraceParse(toks)

TextHoldsNodes(toks) ==
  LET v == TextPayload(toks)
  IN v.tried /\ v.ok /\ v.val.t = "obj" /\ v.val.hasNodes /\ v.val.nodes # <<>>

C25_EmptyDataYieldsToText ==
  (StructuredEmpty /\ GivenText.present /\ TextHoldsNodes(GivenText.toks)) =>
     /\ ~ret.threw
     /\ ret.nodes = TextPayload(GivenText.toks).val.nodes

(* C26: for a non-empty node set and a positive viewport, the (zoom, pan)
   fitToView returns maps the bounding box of the nodes, inflated by the
   padding and the 300x150 footprint, to a screen rectangle inside
   [0, width] x [0, height], with equal margins left and right and equal
   margins top and bottom. *)
FitCalled ==
  /\ pc = "done" /\ call.nodes # <<>>
  /\ FGt(call.containerWidth, Zero) /\ FGt(call.containerHeight, Zero)

ScreenBox ==
  LET box == contentBox(call.nodes, call.padding)
      topLeft == canvasToScreen(box.minX, box.minY, ret.pan, ret.zoom)
      bottomRight == canvasToScreen(box.maxX, box.maxY, ret.pan, ret.zoom)
  IN [left |-> topLeft.x, top |-> topLeft.y,
      right |-> bottomRight.x, bottom |-> bottomRight.y]

C26_FitCentersContent ==
  FitCalled =>
    /\ FLe(Zero, ScreenBox.left) /\ FLe(ScreenBox.left, ScreenBox.right)
    /\ FLe(ScreenBox.right, call.containerWidth)
    /\ FLe(Zero, ScreenBox.top) /\ FLe(ScreenBox.top, ScreenBox.bottom)
    /\ FLe(ScreenBox.bottom, call.containerHeight)
    /\ ScreenBox.left = FSub(call.containerWidth, ScreenBox.right)
    /\ ScreenBox.top = FSub(call.containerHeight, ScreenBox.bottom)

(* C27: fitToView never divides by zero: for every non-empty node set, a
   single node included, and every padding, the content width and the
   content height it divides by are at least 1. *)
C27_ContentAtLeastOne ==
  (pc = "done" /\ call.nodes # <<>>) =>
    /\ FLe(One, contentBox(call.nodes, call.padding).contentWidth)
    /\ FLe(One, contentBox(call.nodes, call.padding).contentHeight)


(***************************************************************************)
(* Properties of the node drag and of the background pan                   *)
(***************************************************************************)
(* A step of the canvas's onMouseMove while a dragged node is set. *)
MoveWhileDragging == last'.op = "handleCanvasMouseMove" /\ draggedNode.present

(* A step of the canvas's onMouseUp or onMouseLeave while a dragged node is
   set. *)
DragEnds == last'.op = "handleCanvasMouseUp" /\ draggedNode.present

StoredNodes(items, id) == getById(items, id).project.nodes

(* C28: a pointer-move while a node is dragged changes nothing of the
   project but the position of that node (every other node, every
   connection and every other field as before; the position is the one
   the transform gives for the pointer minus the grab offset), leaves the
   store and the dragged-node state as they are; the pointer-up or
   pointer-leave that ends the drag stores the project with the nodes where
   the drag left them and clears the dragged-node state. *)
C28_DragInMemoryThenPersisted ==
  /\ [][MoveWhileDragging =>
          /\ localStorage' = localStorage
          /\ draggedNode' = draggedNode
          /\ project' = [project EXCEPT !.nodes = project'.nodes]
          /\ Len(project'.nodes) = Len(project.nodes)
          /\ \A i \in 1..Len(project.nodes) :
               IF project.nodes[i].id = draggedNode.node.id
                 THEN /\ project'.nodes[i] =
                           [project.nodes[i] EXCEPT
                              !.position = project'.nodes[i].position]
                      /\ ~isPanning =>
                           project'.nodes[i].position = dragPosition(pointer'.at)
                 ELSE project'.nodes[i] = project.nodes[i]]_vars
  /\ [][DragEnds =>
          /\ draggedNode' = NoNode
          /\ project'.nodes = project.nodes
          /\ project'.connections = project.connections
          /\ getById(localStorage', project.id).found
          /\ getById(localStorage', project.id).project = project'
          /\ StoredNodes(localStorage', project.id) = project.nodes]_vars

(* A drag of the first of two nodes has ended: the store holds it away from
   where it was mounted, and the second where it was. *)
C28_Witness ==
  /\ last.op = "handleCanvasMouseUp" /\ last.branch = "drop"
  /\ ~draggedNode.present
  /\ Len(project.nodes) = 2
  /\ PositionOf(StoredNodes(localStorage, project.id), AgentId(1)) # Home(AgentId(1))
  /\ PositionOf(StoredNodes(localStorage, project.id), AgentId(2)) = Home(AgentId(2))
  /\ project.connections = <<AgentConnAB>>


(* C29: while connect mode is on, with or without a source chosen, a
   pointer-down on a node sets no dragged node, and a pointer-move changes
   no node position. *)
C29_NoDragInConnectMode ==
  /\ [][(connectionMode /\ last'.op = "handleNodeDragStart") =>
          ~draggedNode'.present]_vars
  /\ [][(connectionMode /\ last'.op = "handleCanvasMouseMove") =>
          project'.nodes = project.nodes]_vars

(* Connect mode is on and awaits a source, or a target, while a node pressed
   in that mode has been moved by the pointer. *)
MovedAwaitingSource ==
  /\ connectionMode /\ connectionSource = NullId
  /\ draggedNode.present /\ last.op = "handleCanvasMouseMove"
  /\ PositionOf(project.nodes, draggedNode.node.id) # Home(draggedNode.node.id)

MovedAwaitingTarget ==
  /\ connectionMode /\ connectionSource # NullId
  /\ draggedNode.present /\ last.op = "handleCanvasMouseMove"
  /\ PositionOf(project.nodes, draggedNode.node.id) # Home(draggedNode.node.id)


(* A step of one of the canvas's pointer handlers (the clock stands). *)
CanvasStep(op) == last'.op = op /\ now' = now

(* C30: a primary-button pointer-down on the background with no node dragged
   starts a pan with panStart = pointer - pan; a pointer-move while panning
   sets pan = pointer - panStart; a pointer-up or pointer-leave ends the
   pan; and from the pointer-down to the pointer-up the zoom, the nodes,
   the connections and the store are as before. *)
C30_PanIsPureTranslation ==
  /\ [][(CanvasStep("handleCanvasMouseDown") /\ pointer'.button = 0
          /\ ~draggedNode.present) =>
          /\ isPanning'
          /\ panStart' = Point(FSub(pointer'.down.x, canvasState.pan.x),
                               FSub(pointer'.down.y, canvasState.pan.y))
          /\ UNCHANGED <<canvasState, project, localStorage>>]_vars
  /\ [][(CanvasStep("handleCanvasMouseMove") /\ isPanning) =>
          /\ isPanning'
          /\ canvasState' =
               [canvasState EXCEPT
                  !.pan = Point(FSub(pointer'.at.x, panStart.x),
                                FSub(pointer'.at.y, panStart.y))]
          /\ UNCHANGED <<panStart, project, localStorage>>]_vars
  /\ [][(CanvasStep("handleCanvasMouseUp") /\ isPanning) =>
          /\ ~isPanning'
          /\ UNCHANGED <<canvasState, project, localStorage>>]_vars

(* The same with the pointer-up taken while no dragged node is set. *)
PanAloneIsPureTranslation ==
  /\ [][(CanvasStep("handleCanvasMouseDown") /\ pointer'.button = 0
          /\ ~draggedNode.present) =>
          /\ isPanning'
          /\ panStart' = Point(FSub(pointer'.down.x, canvasState.pan.x),
                               FSub(pointer'.down.y, canvasState.pan.y))
          /\ UNCHANGED <<canvasState, project, localStorage>>]_vars
  /\ [][(CanvasStep("handleCanvasMouseMove") /\ isPanning) =>
          /\ isPanning'
          /\ canvasState' =
               [canvasState EXCEPT
                  !.pan = Point(FSub(pointer'.at.x, panStart.x),
                                FSub(pointer'.at.y, panStart.y))]
          /\ UNCHANGED <<panStart, project, localStorage>>]_vars
  /\ [][(CanvasStep("handleCanvasMouseUp") /\ isPanning /\ ~draggedNode.present) =>
          /\ ~isPanning'
          /\ UNCHANGED <<canvasState, project, localStorage>>]_vars

(* A pan has moved the view and ended. *)
PannedAndReleased ==
  /\ last.op = "handleCanvasMouseUp" /\ ~isPanning
  /\ canvasState.pan # Origin

(* A node was pressed during a pan. *)
PressedWhilePanning == isPanning /\ draggedNode.present


(***************************************************************************)
(* Properties of connect mode and of the selection                         *)
(***************************************************************************)
(* A step of the connect button. *)
ConnectToggled == last'.op = "toggleConnectionMode" /\ now' = now

(* C31: in every reachable state connect mode off means no pending source;
   the connect button turns the mode off when it is on, on when it is off,
   and in both cases leaves no source selected (and changes neither the
   project nor the store). *)
C31_ToggleDiscardsSource ==
  /\ [](~connectionMode => connectionSource = NullId)
  /\ [][ConnectToggled =>
          /\ connectionMode' = ~connectionMode
          /\ connectionSource' = NullId
          /\ UNCHANGED <<project, localStorage>>]_vars

(* Connect mode has just been turned off by the button, on the three-node
   diagram with its connections as mounted: no source is pending. *)
C31_Witness ==
  /\ last.op = "toggleConnectionMode"
  /\ ~connectionMode /\ connectionSource = NullId
  /\ project.nodes # <<>> /\ project.connections = DiagramC.connections
  /\ canvasState.selectedNodeId = NullId


(***************************************************************************)
(* Properties of createNodeFromTemplate                                    *)
(***************************************************************************)
TemplateObjects == {defaultSpecs(template) : template \in Catalogue}

SpecificationsOf(c, i) == c.heap[c.created[i].specifications]

(* No object of a template has changed in this step. *)
TemplatesKept == \A a \in TemplateObjects : call'.heap[a] = call.heap[a]

(* C32: the specifications of a created node are an object of its own,
   neither a template's defaultSpecs nor another node's specifications; a
   change of one node's specifications changes no template's defaultSpecs
   and no other node's specifications; and creating a node changes neither
   a project nor the store. *)
C32_OwnCopyOfDefaultSpecs ==
  /\ [](pc = "library" =>
          \A i \in 1..Len(call.created) :
            /\ call.created[i].specifications \notin TemplateObjects
            /\ \A j \in 1..Len(call.created) :
                 j # i => call.created[j].specifications #
                            call.created[i].specifications)
  /\ [][pc = "library" =>
          /\ TemplatesKept
          /\ ret'.fn = "updateSelectedNode" =>
               \A j \in 1..Len(call.created) :
                 j # ret'.index =>
                   SpecificationsOf(call', j) = SpecificationsOf(call, j)
          /\ ret'.fn = "createNodeFromTemplate" =>
               UNCHANGED <<project, localStorage>>]_vars

(* The part of it about the changes the page makes. *)
PageEditsKeepTemplates ==
  [][pc = "library" =>
       /\ TemplatesKept
       /\ ret'.fn = "updateSelectedNode" =>
            \A j \in 1..Len(call.created) :
              j # ret'.index =>
                SpecificationsOf(call', j) = SpecificationsOf(call, j)
       /\ ret'.fn = "createNodeFromTemplate" =>
            UNCHANGED <<project, localStorage>>]_vars

(* Two nodes created from one template refer to the template's object. *)
SharedDefaultSpecs ==
  /\ pc = "library" /\ Len(call.created) = 2
  /\ call.created[1].specifications = call.created[2].specifications
  /\ call.created[1].specifications \in TemplateObjects


(***************************************************************************)
(* Properties of the project's nodes, connections and versions             *)
(***************************************************************************)
Distinct(nodes) ==
  \A i, j \in 1..Len(nodes) : i # j => nodes[i].id # nodes[j].id

(* C33: in every state reached by template drops, generations, selections
   and deletions no two nodes of the project have the same id. *)
C33_NodeIdsUnique == Distinct(project.nodes)

(* The same of the projects in the store. *)
StoredNodeIdsUnique ==
  \A i \in 1..Len(getAll(localStorage)) : Distinct(getAll(localStorage)[i].nodes)

(* A node has been dropped next to a node an agent named. *)
DroppedOnGenerated ==
  /\ last.op = "handleTemplateDrop"
  /\ \E i, j \in 1..Len(project.nodes) :
       project.nodes[i].id = AgentId(1) /\ project.nodes[j].id = generateId(ids)


Dangling(conn, nodes) ==
  conn.source \notin NodeIds(nodes) \/ conn.target \notin NodeIds(nodes)

InSeq(x, seq) == \E i \in 1..Len(seq) : seq[i] = x

StoredConnections(items, id) == getById(items, id).project.connections

(* A dangling connection of the project, or of its stored record, is gone
   after the step. *)
DanglingRemoved ==
  \E i \in 1..Len(project.connections) :
    /\ Dangling(project.connections[i], project.nodes)
    /\ \/ ~InSeq(project.connections[i], project'.connections)
       \/ /\ InSeq(project.connections[i], StoredConnections(localStorage, project.id))
          /\ ~InSeq(project.connections[i], StoredConnections(localStorage', project.id))

(* The connections drawn are those with both ends among the nodes. *)
DrawnAreAttached ==
  \A i \in 1..Len(project.connections) :
    InSeq(project.connections[i], renderedConnections(project))
      <=> ~Dangling(project.connections[i], project.nodes)

(* C34 as stated: a connection with a missing end is not drawn, and it
   leaves the project and the store only by a deletion of a node or of a
   connection. *)
C34_DanglingKeptUntilDeleted ==
  /\ [](pc = "editor" => DrawnAreAttached)
  /\ [][DanglingRemoved =>
          last'.op \in {"deleteSelectedNode", "deleteConnection"}]_vars

(* C34, amended: a connection with a missing end is not drawn, and it leaves
   the project and the store only by a deletion of a node or of a
   connection, or by a generation that replaces the diagram. *)
C34_DanglingKeptUntilReplaced ==
  /\ [](pc = "editor" => DrawnAreAttached)
  /\ [][DanglingRemoved =>
          \/ last'.op \in {"deleteSelectedNode", "deleteConnection"}
          \/ last'.op = "agentSettles" /\ last'.branch = "applied"]_vars

(* The project and the store hold the connection to the missing node, which
   is not drawn, after a step that is neither a deletion nor a generation. *)
C34_Witness ==
  /\ last.op = "handleNodeClick"
  /\ InSeq(AgentConnBC, project.connections)
  /\ InSeq(AgentConnBC, StoredConnections(localStorage, project.id))
  /\ Dangling(AgentConnBC, project.nodes)
  /\ renderedConnections(project) = <<AgentConnAB>>


IsPrefix(s, t) == Len(s) <= Len(t) /\ \A i \in 1..Len(s) : t[i] = s[i]

StoredVersionsOf(items, id) == getById(items, id).project.versions

(* C35: every step of the editor leaves the versions of the project, and
   those of its stored record, a prefix of what they are afterwards: no
   existing version is changed, removed or moved. *)
C35_VersionsKept ==
  [][pc = "editor" =>
       /\ IsPrefix(project.versions, project'.versions)
       /\ getById(localStorage', project.id).found
       /\ IsPrefix(StoredVersionsOf(localStorage, project.id),
                   StoredVersionsOf(localStorage', project.id))]_vars

(* A generation has replaced the diagram, and the two versions are in the
   project and in the store as they were. *)
C35_Witness ==
  /\ last.op = "agentSettles" /\ last.branch = "applied"
  /\ project.nodes # DiagramE.nodes
  /\ project.versions = StoredVersions
  /\ StoredVersionsOf(localStorage, project.id) = StoredVersions

(* The same after the end of a drag. *)
VersionsAfterDrag ==
  /\ last.op = "handleCanvasMouseUp" /\ last.branch = "drop"
  /\ StoredVersionsOf(localStorage, project.id) = StoredVersions
  /\ getById(localStorage, project.id).project.nodes # DiagramE.nodes


(* C36: a click on a node with connect mode off selects it and opens the
   detail panel, and nothing else: the selected node id is the clicked one,
   the panel is open, and the project, the store, the pan, the zoom, the
   connect mode and the pending source are as before. *)
C36_PlainClickSelects ==
  [][(last'.op = "handleNodeClick" /\ now' = now /\ ~connectionMode) =>
       /\ canvasState' = [canvasState EXCEPT !.selectedNodeId = last'.id]
       /\ last'.id \in NodeIds(project.nodes)
       /\ rightPanelOpen'
       /\ UNCHANGED <<project, localStorage, ids, connectionMode,
                      connectionSource>>]_vars

(* The second node of the diagram has been selected by a click, the first
   having been selected before it. *)
C36_Witness ==
  /\ last.op = "handleNodeClick" /\ last.branch = "select"
  /\ last.id = AgentNodeB.id
  /\ canvasState.selectedNodeId = AgentNodeB.id
  /\ rightPanelOpen /\ ~connectionMode /\ connectionSource = NullId
  /\ project.nodes = DiagramC.nodes /\ project.connections = DiagramC.connections


(* C37: in no state reached by pointer-downs on the background and on the
   nodes, pointer-moves, pointer-ups and pointer-leaves are a pan and a node
   drag both under way. *)
C37_PanAndDragExclusive == ~(isPanning /\ draggedNode.present)

(* A node is dragged and the view is not panned by the same moves: the
   pointer went down on the node alone. *)
DraggedAlone ==
  /\ draggedNode.present /\ ~isPanning
  /\ last.op = "handleCanvasMouseMove" /\ last.branch = "drag"


(***************************************************************************)
(* Properties of the view                                                  *)
(***************************************************************************)
(* C38: after any sequence of zoom-in, zoom-out and fit-to-view the zoom is
   a number, strictly positive, and within [0.1, 2]. *)
C38_ZoomPositiveInRange ==
  /\ IsNum(canvasState.zoom)
  /\ FGt(canvasState.zoom, Zero)
  /\ FLe(Tenth, canvasState.zoom)
  /\ FLe(canvasState.zoom, Two)

(* Fit-to-view has set a zoom below 0.1 for a viewport of positive size. *)
FittedBelowTenth ==
  /\ last.op = "handleFitToView" /\ last.branch = "fit"
  /\ FGt(canvasState.zoom, Zero) /\ FLt(canvasState.zoom, Tenth)

(* Fit-to-view has set the zoom to 0. *)
FittedToZero ==
  /\ last.op = "handleFitToView" /\ last.branch = "fit"
  /\ canvasState.zoom = Zero


(***************************************************************************)
(* Properties of the generation, continued                                 *)
(***************************************************************************)
(* C39: the settling of the agent call, with a success, with no components,
   with an error status, with a rejection or with a throw of the parser,
   clears the generating flag and leaves the Generate button disabled by
   nothing but an empty text; and, the call settling, a generating flag
   that is set is cleared in the end. *)
C39_GeneratingCleared ==
  /\ [][CallSettles =>
          /\ isGenerating /\ ~isGenerating'
          /\ last'.branch \in {"applied", "empty", "failed", "rejected", "threw"}
          /\ generateDisabled(isGenerating', requirements')
               = (Trim(requirements') = "")]_vars
  /\ (isGenerating ~> ~isGenerating)

(* A call has settled with a throw of the parser and the button is enabled
   again. *)
C39_Witness ==
  /\ last.op = "agentSettles" /\ last.branch = "threw"
  /\ ~isGenerating /\ ~agentCall.pending
  /\ ~generateDisabled(isGenerating, requirements)

(* And with a rejection. *)
SettledByRejection ==
  /\ last.op = "agentSettles" /\ last.branch = "rejected"
  /\ ~isGenerating /\ ~generateDisabled(isGenerating, requirements)


(* The state a handler that stores the project has left. *)
AfterPersisting ==
  \/ last.op \in {"handleTemplateDrop", "deleteSelectedNode", "deleteConnection",
                  "saveProject"}
  \/ last.op = "handleNodeClick" /\ last.branch = "connect"
  \/ last.op = "handleCanvasMouseUp" /\ last.branch = "drop"
  \/ last.op = "agentSettles" /\ last.branch = "applied"

(* C40: right after each canvas operation that persists (template drop,
   connection creation, node deletion, connection deletion, drag end,
   explicit save, successful generation) the record stored under the
   project's id has the nodes and the connections of the project in
   memory. *)
C40_PersistedEqualsMemory ==
  AfterPersisting =>
    /\ getById(localStorage, project.id).found
    /\ StoredNodes(localStorage, project.id) = project.nodes
    /\ StoredConnections(localStorage, project.id) = project.connections


(* Every node of the project in memory stands at a finite position. *)
FinitePositions ==
  \A i \in 1..Len(project.nodes) :
    IsNum(project.nodes[i].position.x) /\ IsNum(project.nodes[i].position.y)

(* While the nodes stand at finite positions the stored record has the
   nodes and connections of the project in memory after each of these
   handlers. *)
PersistedEqualsFiniteMemory ==
  (AfterPersisting /\ FinitePositions) =>
    /\ getById(localStorage, project.id).found
    /\ StoredNodes(localStorage, project.id) = project.nodes
    /\ StoredConnections(localStorage, project.id) = project.connections

(* A template has been dropped while the zoom was 0: the new node is at an
   infinite position in memory, and at null in the store. *)
DroppedAtZoomZero ==
  /\ last.op = "handleTemplateDrop" /\ canvasState.zoom = Zero
  /\ ~FinitePositions
  /\ StoredNodes(localStorage, project.id) # project.nodes

====
